---- MODULE Spec2Model ----
(***************************************************************************)
(* A model of the DHCPv6 wire codec of mastercactapus/dhcpv6: the DUID     *)
(* codec (src/duid.go), the option codec (src/options.go, lines 1-1153)    *)
(* and the message codec (src/unnamed/part_003, lines 1-123).              *)
(*                                                                         *)
(* Go values are modelled as follows.                                      *)
(*  - A []byte is a slice record [b, size, off, n]: b is the explicit      *)
(*    prefix of the backing array, size the length of the backing array    *)
(*    (octets past Len(b) are zero, as make() leaves them), off the        *)
(*    slice's offset in the array and n its len; its cap is size - off.    *)
(*  - A struct is a record with a field t naming its Go type; a string or  *)
(*    a byte sequence stored in a struct is the sequence of its octets     *)
(*    (a nil and an empty sequence are both << >>).                        *)
(*  - A call returns [err, val] (decoders) or [err, data] (encoders); err  *)
(*    is "nil", the name of the error variable returned, or "panic" when   *)
(*    the Go runtime aborts the call (index or slice bounds out of range,  *)
(*    nil dereference).                                                    *)
(***************************************************************************)
EXTENDS Integers, Sequences, FiniteSets, TLC

VARIABLES op, arg, out, back

vars == <<op, arg, out, back>>

(***************************************************************************)
(* Errors (src/dhcpv6.go:8-12; ErrWontFit and ErrInvalidData are used by   *)
(* src/options.go).                                                        *)
(***************************************************************************)
ErrNone == "nil"
ErrInvalidType == "ErrInvalidType"
ErrInvalidIpv6Address == "ErrInvalidIpv6Address"
ErrUnexpectedEOF == "ErrUnexpectedEOF"
ErrDuidTooLong == "ErrDuidTooLong"
ErrWontFit == "ErrWontFit"
ErrInvalidData == "ErrInvalidData"
GoPanic == "panic"

None == [t |-> "none"]
NilValue == [t |-> "nil"]

(***************************************************************************)
(* Go slices.                                                              *)
(***************************************************************************)
Zeros(n) == [i \in 1..n |-> 0]

\* make([]byte, n, c) followed by writes that produced the octets bytes
MakeSlice(bytes, c) == [b |-> bytes, size |-> c, off |-> 0, n |-> Len(bytes)]

\* a []byte whose cap equals its len
Exact(bytes) == MakeSlice(bytes, Len(bytes))

SLen(s) == s.n

SCap(s) == s.size - s.off

\* s[i] for 0 <= i < cap(s), read from the backing array
At(s, i) == IF s.off + i + 1 <= Len(s.b) THEN s.b[s.off + i + 1] ELSE 0

\* the octets s[0], ..., s[len(s)-1]
Bytes(s) == [i \in 1..s.n |-> At(s, i - 1)]

\* s[lo:hi] does not panic
CanSlice(s, lo, hi) == 0 <= lo /\ lo <= hi /\ hi <= SCap(s)

\* s[lo:hi]
Slice(s, lo, hi) == [s EXCEPT !.off = s.off + lo, !.n = hi - lo]

\* s[lo:] does not panic
CanFrom(s, lo) == 0 <= lo /\ lo <= s.n

\* s[lo:]
From(s, lo) == Slice(s, lo, s.n)

\* uint16 arithmetic
U16(x) == x % 65536

\* binary.BigEndian.Uint16(s), which needs len(s) >= 2
Uint16(s) == At(s, 0) * 256 + At(s, 1)

\* binary.BigEndian.Uint32(s), which needs len(s) >= 4
Uint32(s) == ((At(s, 0) * 256 + At(s, 1)) * 256 + At(s, 2)) * 256 + At(s, 3)

\* the octets binary.BigEndian.PutUint16 writes
Put16(v) == << (v \div 256) % 256, v % 256 >>

\* the octets binary.BigEndian.PutUint32 writes
Put32(v) == << (v \div 16777216) % 256, (v \div 65536) % 256, (v \div 256) % 256, v % 256 >>

\* copy(buf[pos:], src) on the octet sequence buf, for pos <= Len(buf)
Copy(buf, pos, src) ==
    [i \in 1..Len(buf) |-> IF i > pos /\ i - pos <= Len(src) THEN src[i - pos] ELSE buf[i]]

(***************************************************************************)
(* DUIDs (src/duid.go).                                                    *)
(***************************************************************************)
DuidTypeLlt == 1
DuidTypeEn == 2
DuidTypeLl == 3

LltDuid(hw, time, addr) ==
    [t |-> "LltDuid", HardwareType |-> hw, Time |-> time, LlAddress |-> addr]

EnDuid(en, id) == [t |-> "EnDuid", EnterpriseNumber |-> en, Identifier |-> id]

LlDuid(hw, addr) == [t |-> "LlDuid", HardwareType |-> hw, LlAddress |-> addr]

\* new(LltDuid), new(EnDuid), new(LlDuid)
NewLltDuid == LltDuid(0, 0, << >>)
NewEnDuid == EnDuid(0, << >>)
NewLlDuid == LlDuid(0, << >>)

Duid_Type(d) ==
    CASE d.t = "LltDuid" -> DuidTypeLlt
      [] d.t = "EnDuid" -> DuidTypeEn
      [] d.t = "LlDuid" -> DuidTypeLl

\* LltDuid.MarshalBinary: the time is written at data[6:] and the address
\* at data[10:] of a buffer of 8+len(LlAddress) octets.
LltDuid_MarshalBinary(d) ==
    LET n == Len(d.LlAddress)
        b0 == Zeros(8 + n)
        b1 == Copy(b0, 0, Put16(DuidTypeLlt))
        b2 == Copy(b1, 2, Put16(d.HardwareType))
    IN  IF n > 122 THEN [err |-> ErrDuidTooLong, data |-> Exact(<< >>)]
        ELSE IF (8 + n) - 6 < 4 THEN [err |-> GoPanic, data |-> Exact(<< >>)]
        ELSE [err |-> ErrNone,
              data |-> Exact(Copy(Copy(b2, 6, Put32(d.Time)), 10, d.LlAddress))]

\* LltDuid.UnmarshalBinary on receiver d
LltDuid_UnmarshalBinary(d, data) ==
    IF SLen(data) < 8 THEN [err |-> ErrUnexpectedEOF, val |-> d]
    ELSE IF SLen(data) > 130 THEN [err |-> ErrDuidTooLong, val |-> d]
    ELSE IF Uint16(data) # DuidTypeLlt THEN [err |-> ErrInvalidType, val |-> d]
    ELSE LET d1 == [d EXCEPT !.HardwareType = Uint16(From(data, 2)),
                             !.Time = Uint32(From(data, 4))]
         IN  IF ~CanFrom(data, 10) THEN [err |-> GoPanic, val |-> d1]
             ELSE [err |-> ErrNone,
                   val |-> [d1 EXCEPT !.LlAddress = Bytes(From(data, 10))]]

EnDuid_MarshalBinary(d) ==
    LET n == Len(d.Identifier)
        b0 == Zeros(6 + n)
        b1 == Copy(b0, 0, Put16(DuidTypeEn))
        b2 == Copy(b1, 2, Put32(d.EnterpriseNumber))
    IN  IF n > 124 THEN [err |-> ErrDuidTooLong, data |-> Exact(<< >>)]
        ELSE [err |-> ErrNone, data |-> Exact(Copy(b2, 6, d.Identifier))]

EnDuid_UnmarshalBinary(d, data) ==
    IF SLen(data) < 6 THEN [err |-> ErrUnexpectedEOF, val |-> d]
    ELSE IF SLen(data) > 130 THEN [err |-> ErrDuidTooLong, val |-> d]
    ELSE IF Uint16(data) # DuidTypeEn THEN [err |-> ErrInvalidType, val |-> d]
    ELSE [err |-> ErrNone,
          val |-> [d EXCEPT !.EnterpriseNumber = Uint32(From(data, 2)),
                            !.Identifier = Bytes(From(data, 6))]]

\* LlDuid.MarshalBinary with the ceiling one octet higher
LlDuid_MarshalBinary_Ceiling127(d) ==
    LET n == Len(d.LlAddress)
        b0 == Zeros(4 + n)
        b1 == Copy(b0, 0, Put16(DuidTypeLl))
        b2 == Copy(b1, 2, Put16(d.HardwareType))
    IN  IF n > 127 THEN [err |-> ErrDuidTooLong, data |-> Exact(<< >>)]
        ELSE [err |-> ErrNone, data |-> Exact(Copy(b2, 4, d.LlAddress))]

LlDuid_MarshalBinary(d) ==
    LET n == Len(d.LlAddress)
        b0 == Zeros(4 + n)
        b1 == Copy(b0, 0, Put16(DuidTypeLl))
        b2 == Copy(b1, 2, Put16(d.HardwareType))
    IN  IF n > 126 THEN [err |-> ErrDuidTooLong, data |-> Exact(<< >>)]
        ELSE [err |-> ErrNone, data |-> Exact(Copy(b2, 4, d.LlAddress))]

LlDuid_UnmarshalBinary(d, data) ==
    IF SLen(data) < 4 THEN [err |-> ErrUnexpectedEOF, val |-> d]
    ELSE IF SLen(data) > 130 THEN [err |-> ErrDuidTooLong, val |-> d]
    ELSE IF Uint16(data) # DuidTypeLl THEN [err |-> ErrInvalidType, val |-> d]
    ELSE [err |-> ErrNone,
          val |-> [d EXCEPT !.HardwareType = Uint16(From(data, 2)),
                            !.LlAddress = Bytes(From(data, 4))]]

\* the dynamic dispatch of Duid.MarshalBinary; a nil Duid is a nil dereference
Duid_MarshalBinary(d) ==
    CASE d.t = "LltDuid" -> LltDuid_MarshalBinary(d)
      [] d.t = "EnDuid" -> EnDuid_MarshalBinary(d)
      [] d.t = "LlDuid" -> LlDuid_MarshalBinary(d)
      [] OTHER -> [err |-> GoPanic, data |-> Exact(<< >>)]

\* UnmarshalBinaryDuid: the tag is read before any length check
UnmarshalBinaryDuid(data) ==
    IF SLen(data) < 2 THEN [err |-> GoPanic, val |-> NilValue]
    ELSE LET dtype == Uint16(data)
         IN  CASE dtype = DuidTypeLlt -> LltDuid_UnmarshalBinary(NewLltDuid, data)
               [] dtype = DuidTypeEn -> EnDuid_UnmarshalBinary(NewEnDuid, data)
               [] dtype = DuidTypeLl -> LlDuid_UnmarshalBinary(NewLlDuid, data)
               [] OTHER -> [err |-> ErrInvalidType, val |-> NilValue]

(***************************************************************************)
(* Options (src/options.go).                                               *)
(***************************************************************************)
OptionCodeClientId == 1
OptionCodeServerId == 2
OptionCodeIaNa == 3
OptionCodeIaTa == 4
OptionCodeIaAddr == 5
OptionCodeOro == 6
OptionCodePreference == 7
OptionCodeElapsedTime == 8
OptionCodeRelayMsg == 9
OptionCodeAuth == 11
OptionCodeUnicast == 12
OptionCodeStatusCode == 13
OptionCodeRapidCommit == 14
OptionCodeUserClass == 15
OptionCodeVendorClass == 16
OptionCodeVendorOpts == 17
OptionCodeInterfaceId == 18
OptionCodeReconfMsg == 19
OptionCodeReconfAccept == 20
OptionCodeIaPd == 25
OptionCodeIaPrefix == 26
OptionCodeFQDN == 39
OptionCodeNextHop == 242
OptionCodeRtPrefix == 243
OptionCodeMTU == 244

\* net.IPv6len
IPv6len == 16

\* the codes UnmarshalBinaryOption has a case for
KnownCodes ==
    {OptionCodeClientId, OptionCodeServerId, OptionCodeIaNa, OptionCodeIaTa,
     OptionCodeIaAddr, OptionCodeOro, OptionCodePreference, OptionCodeElapsedTime,
     OptionCodeRelayMsg, OptionCodeAuth, OptionCodeUnicast, OptionCodeStatusCode,
     OptionCodeRapidCommit, OptionCodeUserClass, OptionCodeVendorClass,
     OptionCodeVendorOpts, OptionCodeInterfaceId, OptionCodeReconfMsg,
     OptionCodeReconfAccept, OptionCodeFQDN, OptionCodeNextHop, OptionCodeRtPrefix,
     OptionCodeMTU}

UnknownOption(code, data) == [t |-> "UnknownOption", OptionCode |-> code, OptionData |-> data]
ClientIdOption(duid) == [t |-> "ClientIdOption", Duid |-> duid]
ServerIdOption(duid) == [t |-> "ServerIdOption", Duid |-> duid]
IaNaOption(iaid, t1, t2, opts) ==
    [t |-> "IaNaOption", IAID |-> iaid, T1 |-> t1, T2 |-> t2, IaNaOptions |-> opts]
IaTaOption(iaid, opts) == [t |-> "IaTaOption", IAID |-> iaid, IaTaOptions |-> opts]
IaAddrOption(addr, pref, valid, opts) ==
    [t |-> "IaAddrOption", Ipv6Address |-> addr, PreferredLifetime |-> pref,
     ValidLifetime |-> valid, IAddrOptions |-> opts]
OroOption(codes) == [t |-> "OroOption", RequestedOptionCodes |-> codes]
PreferenceOption(v) == [t |-> "PreferenceOption", PreferenceValue |-> v]
ElapsedTimeOption(v) == [t |-> "ElapsedTimeOption", ElapsedTime |-> v]
RelayMsgOption(m) == [t |-> "RelayMsgOption", DhcpRelayMessage |-> m]
AuthOption(p, a, r, replay, info) ==
    [t |-> "AuthOption", Protocol |-> p, Algorithm |-> a, RDM |-> r,
     ReplayDetection |-> replay, AuthenticationInformation |-> info]
UnicastOption(addr) == [t |-> "UnicastOption", ServerAddress |-> addr]
StatusCodeOption(c, msg) == [t |-> "StatusCodeOption", StatusCode |-> c, StatusMessage |-> msg]
RapidCommitOption == [t |-> "RapidCommitOption"]
UserClassOption(entries) == [t |-> "UserClassOption", UserClassData |-> entries]
VendorClassOption(entries) == [t |-> "VendorClassOption", VendorClassData |-> entries]
VendorOptsOptionData(code, data) == [OptionCode |-> code, OptionData |-> data]
VendorOptsOption(en, opts) ==
    [t |-> "VendorOptsOption", EnterpriseNumber |-> en, OptionData |-> opts]
InterfaceIdOption(id) == [t |-> "InterfaceIdOption", InterfaceId |-> id]
ReconfMsgOption(m) == [t |-> "ReconfMsgOption", MsgType |-> m]
ReconfAcceptOption == [t |-> "ReconfAcceptOption"]
NextHopOption(addr, opts) == [t |-> "NextHopOption", NextHop |-> addr, NextHopOptions |-> opts]
RtPrefixOption(life, plen, metric, prefix) ==
    [t |-> "RtPrefixOption", Lifetime |-> life, Prefixlen |-> plen, Metric |-> metric,
     Prefix |-> prefix]
FQDNOption(flags, name) == [t |-> "FQDNOption", Flags |-> flags, DomainName |-> name]
MTUOption(m) == [t |-> "MTUOption", MTU |-> m]

DhcpMessage(mt, xid, opts) ==
    [t |-> "DhcpMessage", MsgType |-> mt, TransactionId |-> xid, Options |-> opts]
DhcpRelayMessage(mt, hops, link, peer, opts) ==
    [t |-> "DhcpRelayMessage", MsgType |-> mt, HopCount |-> hops, LinkAddress |-> link,
     PeerAddress |-> peer, Options |-> opts]

\* the zero values new(T) gives
NewDhcpMessage == DhcpMessage(0, <<0, 0, 0>>, << >>)
NewDhcpRelayMessage == DhcpRelayMessage(0, 0, << >>, << >>, << >>)

\* new(T) for the type UnmarshalBinaryOption picks for a code
NewOption(code) ==
    CASE code = OptionCodeClientId -> ClientIdOption(NilValue)
      [] code = OptionCodeServerId -> ServerIdOption(NilValue)
      [] code = OptionCodeIaNa -> IaNaOption(<<0, 0, 0, 0>>, 0, 0, << >>)
      [] code = OptionCodeIaTa -> IaTaOption(<<0, 0, 0, 0>>, << >>)
      [] code = OptionCodeIaAddr -> IaAddrOption(<< >>, 0, 0, << >>)
      [] code = OptionCodeOro -> OroOption(<< >>)
      [] code = OptionCodePreference -> PreferenceOption(0)
      [] code = OptionCodeElapsedTime -> ElapsedTimeOption(0)
      [] code = OptionCodeRelayMsg -> RelayMsgOption(NewDhcpRelayMessage)
      [] code = OptionCodeAuth -> AuthOption(0, 0, 0, Zeros(8), << >>)
      [] code = OptionCodeUnicast -> UnicastOption(<< >>)
      [] code = OptionCodeStatusCode -> StatusCodeOption(0, << >>)
      [] code = OptionCodeRapidCommit -> RapidCommitOption
      [] code = OptionCodeUserClass -> UserClassOption(<< >>)
      [] code = OptionCodeVendorClass -> VendorClassOption(<< >>)
      [] code = OptionCodeVendorOpts -> VendorOptsOption(0, << >>)
      [] code = OptionCodeInterfaceId -> InterfaceIdOption(<< >>)
      [] code = OptionCodeReconfMsg -> ReconfMsgOption(0)
      [] code = OptionCodeReconfAccept -> ReconfAcceptOption
      [] code = OptionCodeFQDN -> FQDNOption(0, << >>)
      [] code = OptionCodeNextHop -> NextHopOption(<< >>, << >>)
      [] code = OptionCodeRtPrefix -> RtPrefixOption(0, 0, 0, << >>)
      [] code = OptionCodeMTU -> MTUOption(0)
      [] OTHER -> UnknownOption(0, << >>)

\* Option.Code()
Option_Code(o) ==
    CASE o.t = "UnknownOption" -> o.OptionCode
      [] o.t = "ClientIdOption" -> OptionCodeClientId
      [] o.t = "ServerIdOption" -> OptionCodeServerId
      [] o.t = "IaNaOption" -> OptionCodeIaNa
      [] o.t = "IaTaOption" -> OptionCodeIaTa
      [] o.t = "IaAddrOption" -> OptionCodeIaAddr
      [] o.t = "OroOption" -> OptionCodeOro
      [] o.t = "PreferenceOption" -> OptionCodePreference
      [] o.t = "ElapsedTimeOption" -> OptionCodeElapsedTime
      [] o.t = "RelayMsgOption" -> OptionCodeRelayMsg
      [] o.t = "AuthOption" -> OptionCodeAuth
      [] o.t = "UnicastOption" -> OptionCodeUnicast
      [] o.t = "StatusCodeOption" -> OptionCodeStatusCode
      [] o.t = "RapidCommitOption" -> OptionCodeRapidCommit
      [] o.t = "UserClassOption" -> OptionCodeUserClass
      [] o.t = "VendorClassOption" -> OptionCodeVendorClass
      [] o.t = "VendorOptsOption" -> OptionCodeVendorOpts
      [] o.t = "InterfaceIdOption" -> OptionCodeInterfaceId
      [] o.t = "ReconfMsgOption" -> OptionCodeReconfMsg
      [] o.t = "ReconfAcceptOption" -> OptionCodeReconfAccept
      [] o.t = "FQDNOption" -> OptionCodeFQDN
      [] o.t = "NextHopOption" -> OptionCodeNextHop
      [] o.t = "RtPrefixOption" -> OptionCodeRtPrefix
      [] o.t = "MTUOption" -> OptionCodeMTU

\* results of encoders and decoders
Encoded(s) == [err |-> ErrNone, data |-> s]
EncodeFails(e) == [err |-> e, data |-> Exact(<< >>)]
Decoded(v) == [err |-> ErrNone, val |-> v]
DecodeFails(e, v) == [err |-> e, val |-> v]

\* the four header octets
Header(code, length) == Put16(code) \o Put16(length)

RECURSIVE Option_MarshalBinary(_)
RECURSIVE MarshalOptions(_, _, _, _)
RECURSIVE DhcpRelayMessage_MarshalBinary(_)
RECURSIVE UnmarshalBinaryOption(_)
RECURSIVE UnmarshalNested(_, _)
RECURSIVE UnmarshalOptions(_, _)

(***************************************************************************)
(* Encoders.                                                               *)
(***************************************************************************)
UnknownOption_MarshalBinary(o) ==
    IF Len(o.OptionData) > 65535 THEN EncodeFails(ErrWontFit)
    ELSE Encoded(Exact(Header(U16(o.OptionCode), U16(Len(o.OptionData))) \o o.OptionData))

\* ClientIdOption.MarshalBinary and ServerIdOption.MarshalBinary (code is the
\* option's own code): a buffer of capacity 134 holding the header and the
\* DUID; the DUID encoders return 130 octets at most, so append never
\* grows it
DuidOption_MarshalBinary(o, code) ==
    LET r == Duid_MarshalBinary(o.Duid)
    IN  IF r.err # ErrNone THEN EncodeFails(r.err)
        ELSE Encoded(MakeSlice(Header(code, U16(SLen(r.data))) \o Bytes(r.data), 134))

ClientIdOption_MarshalBinary(o) == DuidOption_MarshalBinary(o, OptionCodeClientId)

ServerIdOption_MarshalBinary(o) == DuidOption_MarshalBinary(o, OptionCodeServerId)

\* The loop shared by the container encoders: append each nested option's
\* octets to acc unless the buffer's capacity cap would be exceeded.
\* r is what opts[i].MarshalBinary() returned.
AppendOption(opts, i, acc, cap, r) ==
    IF r.err # ErrNone THEN [err |-> r.err, bytes |-> << >>]
    ELSE IF Len(acc) + SLen(r.data) > cap THEN [err |-> ErrWontFit, bytes |-> << >>]
    ELSE MarshalOptions(opts, i + 1, acc \o Bytes(r.data), cap)

MarshalOptions(opts, i, acc, cap) ==
    IF i > Len(opts) THEN [err |-> ErrNone, bytes |-> acc]
    ELSE AppendOption(opts, i, acc, cap, Option_MarshalBinary(opts[i]))

\* the header's length field is written last, from the final buffer length
WithLength(bytes) ==
    SubSeq(bytes, 1, 2) \o Put16(U16(Len(bytes) - 4)) \o SubSeq(bytes, 5, Len(bytes))

\* what a container returns once the loop over its options has returned r
ContainerResult(r, c) ==
    IF r.err # ErrNone THEN EncodeFails(r.err)
    ELSE Encoded(MakeSlice(WithLength(r.bytes), c))

\* a container: prefix is the 4 header octets and the fixed fields, cap the
\* capacity the buffer is made with when there are nested options
Container_MarshalBinary(prefix, opts, cap) ==
    LET c == IF Len(opts) = 0 THEN Len(prefix) ELSE cap
    IN  ContainerResult(MarshalOptions(opts, 1, prefix, c), c)

IaNaOption_MarshalBinary(o) ==
    Container_MarshalBinary(Header(OptionCodeIaNa, 0) \o o.IAID \o Put32(o.T1) \o Put32(o.T2),
                            o.IaNaOptions, 65539)

IaTaOption_MarshalBinary(o) ==
    Container_MarshalBinary(Header(OptionCodeIaTa, 0) \o o.IAID, o.IaTaOptions, 65539)

\* an IaAddr encoder that encodes the nested options before it looks at
\* the address
IaAddrOption_MarshalBinary_NestedFirst(o) ==
    LET fixed == Put32(o.PreferredLifetime) \o Put32(o.ValidLifetime)
        r == Container_MarshalBinary(Header(OptionCodeIaAddr, 0) \o Zeros(IPv6len) \o fixed,
                                     o.IAddrOptions, 63359)
    IN  IF r.err # ErrNone THEN r
        ELSE IF Len(o.Ipv6Address) # IPv6len THEN EncodeFails(ErrInvalidIpv6Address)
        ELSE Container_MarshalBinary(Header(OptionCodeIaAddr, 0) \o o.Ipv6Address \o fixed,
                                     o.IAddrOptions, 63359)

IaAddrOption_MarshalBinary(o) ==
    IF Len(o.Ipv6Address) # IPv6len THEN EncodeFails(ErrInvalidIpv6Address)
    ELSE Container_MarshalBinary(
             Header(OptionCodeIaAddr, 0) \o o.Ipv6Address \o Put32(o.PreferredLifetime)
                 \o Put32(o.ValidLifetime),
             o.IAddrOptions, 63359)

NextHopOption_MarshalBinary(o) ==
    IF Len(o.NextHop) # IPv6len THEN EncodeFails(ErrInvalidIpv6Address)
    ELSE Container_MarshalBinary(Header(OptionCodeNextHop, 0) \o o.NextHop,
                                 o.NextHopOptions, 65539)

\* PutUint16(data[i*2+4:], code) over the requested codes
PutCodes(codes) ==
    LET c == codes \o << >>
    IN  [i \in 1..(2 * Len(c)) |->
            IF i % 2 = 1 THEN (c[(i + 1) \div 2] \div 256) % 256 ELSE c[i \div 2] % 256]

OroOption_MarshalBinary(o) ==
    LET n == Len(o.RequestedOptionCodes)
    IN  IF n > 32767 THEN EncodeFails(ErrWontFit)
        ELSE Encoded(Exact(Header(OptionCodeOro, U16(n * 2))
                           \o PutCodes(o.RequestedOptionCodes)))

PreferenceOption_MarshalBinary(o) ==
    Encoded(Exact(Header(OptionCodePreference, 1) \o <<o.PreferenceValue>>))

ElapsedTimeOption_MarshalBinary(o) ==
    Encoded(Exact(Header(OptionCodeElapsedTime, 2) \o Put16(o.ElapsedTime)))

RelayMsgOption_MarshalBinary(o) ==
    LET r == DhcpRelayMessage_MarshalBinary(o.DhcpRelayMessage)
    IN  IF r.err # ErrNone THEN EncodeFails(r.err)
        ELSE IF SLen(r.data) > 65535 THEN EncodeFails(ErrWontFit)
        ELSE Encoded(Exact(Header(OptionCodeRelayMsg, U16(SLen(r.data))) \o Bytes(r.data)))

AuthOption_MarshalBinary(o) ==
    LET n == Len(o.AuthenticationInformation)
    IN  IF n > 65524 THEN EncodeFails(ErrWontFit)
        ELSE Encoded(Exact(Header(OptionCodeAuth, U16(11 + n))
                           \o <<o.Protocol, o.Algorithm, o.RDM>> \o o.ReplayDetection
                           \o o.AuthenticationInformation))

UnicastOption_MarshalBinary(o) ==
    IF Len(o.ServerAddress) # IPv6len THEN EncodeFails(ErrInvalidIpv6Address)
    ELSE Encoded(Exact(Header(OptionCodeUnicast, 16) \o o.ServerAddress))

StatusCodeOption_MarshalBinary(o) ==
    LET n == Len(o.StatusMessage)
    IN  IF n > 65534 THEN EncodeFails(ErrWontFit)
        ELSE Encoded(Exact(Header(OptionCodeStatusCode, U16(n + 1)) \o <<o.StatusCode>>
                           \o o.StatusMessage))

RapidCommitOption_MarshalBinary(o) == Encoded(Exact(Header(OptionCodeRapidCommit, 0)))

\* size += 2 + len(entry) over the entries
RECURSIVE EntriesSize(_, _)
EntriesSize(entries, i) ==
    IF i > Len(entries) THEN 0 ELSE 2 + Len(entries[i]) + EntriesSize(entries, i + 1)

\* each entry as its 16-bit length and its octets
RECURSIVE PutEntries(_, _)
PutEntries(entries, i) ==
    IF i > Len(entries) THEN << >>
    ELSE Put16(U16(Len(entries[i]))) \o entries[i] \o PutEntries(entries, i + 1)

UserClassOption_MarshalBinary(o) ==
    LET size == EntriesSize(o.UserClassData, 1)
    IN  IF size > 65539 THEN EncodeFails(ErrWontFit)
        ELSE Encoded(Exact(Header(OptionCodeUserClass, U16(size))
                           \o PutEntries(o.UserClassData, 1)))

VendorClassOption_MarshalBinary(o) ==
    LET size == EntriesSize(o.VendorClassData, 1)
    IN  IF size > 65535 THEN EncodeFails(ErrWontFit)
        ELSE Encoded(Exact(Header(OptionCodeVendorClass, U16(size))
                           \o PutEntries(o.VendorClassData, 1)))

RECURSIVE VendorOptsSize(_, _)
VendorOptsSize(opts, i) ==
    IF i > Len(opts) THEN 0 ELSE 4 + Len(opts[i].OptionData) + VendorOptsSize(opts, i + 1)

RECURSIVE PutVendorOpts(_, _)
PutVendorOpts(opts, i) ==
    IF i > Len(opts) THEN << >>
    ELSE Header(opts[i].OptionCode, U16(Len(opts[i].OptionData))) \o opts[i].OptionData
         \o PutVendorOpts(opts, i + 1)

VendorOptsOption_MarshalBinary(o) ==
    LET size == 4 + VendorOptsSize(o.OptionData, 1)
    IN  IF size > 65535 THEN EncodeFails(ErrWontFit)
        ELSE Encoded(Exact(Header(OptionCodeVendorOpts, U16(size)) \o Put32(o.EnterpriseNumber)
                           \o PutVendorOpts(o.OptionData, 1)))

InterfaceIdOption_MarshalBinary(o) ==
    IF Len(o.InterfaceId) > 65535 THEN EncodeFails(ErrWontFit)
    ELSE Encoded(Exact(Header(OptionCodeInterfaceId, U16(Len(o.InterfaceId)))
                       \o o.InterfaceId))

ReconfMsgOption_MarshalBinary(o) ==
    Encoded(Exact(Header(OptionCodeReconfMsg, 1) \o <<o.MsgType>>))

ReconfAcceptOption_MarshalBinary(o) == Encoded(Exact(Header(OptionCodeReconfAccept, 0)))

RtPrefixOption_MarshalBinary(o) ==
    IF Len(o.Prefix) # IPv6len THEN EncodeFails(ErrInvalidIpv6Address)
    ELSE IF o.Prefixlen > 128 THEN EncodeFails(ErrInvalidIpv6Address)
    ELSE Encoded(Exact(Header(OptionCodeRtPrefix, 4 + 1 + 1 + IPv6len) \o Put32(o.Lifetime)
                       \o <<o.Prefixlen, o.Metric>> \o o.Prefix))

\* no ceiling is checked: the length field is uint16(1 + len(DomainName))
FQDNOption_MarshalBinary(o) ==
    Encoded(Exact(Header(OptionCodeFQDN, U16(1 + Len(o.DomainName))) \o <<o.Flags>>
                  \o o.DomainName))

MTUOption_MarshalBinary(o) == Encoded(Exact(Header(OptionCodeMTU, 2) \o Put16(o.MTU)))

\* the dynamic dispatch of Option.MarshalBinary; the call on a nil Option
\* is a nil dereference
Option_MarshalBinary(o) ==
    CASE o.t = "UnknownOption" -> UnknownOption_MarshalBinary(o)
      [] o.t = "ClientIdOption" -> ClientIdOption_MarshalBinary(o)
      [] o.t = "ServerIdOption" -> ServerIdOption_MarshalBinary(o)
      [] o.t = "IaNaOption" -> IaNaOption_MarshalBinary(o)
      [] o.t = "IaTaOption" -> IaTaOption_MarshalBinary(o)
      [] o.t = "IaAddrOption" -> IaAddrOption_MarshalBinary(o)
      [] o.t = "OroOption" -> OroOption_MarshalBinary(o)
      [] o.t = "PreferenceOption" -> PreferenceOption_MarshalBinary(o)
      [] o.t = "ElapsedTimeOption" -> ElapsedTimeOption_MarshalBinary(o)
      [] o.t = "RelayMsgOption" -> RelayMsgOption_MarshalBinary(o)
      [] o.t = "AuthOption" -> AuthOption_MarshalBinary(o)
      [] o.t = "UnicastOption" -> UnicastOption_MarshalBinary(o)
      [] o.t = "StatusCodeOption" -> StatusCodeOption_MarshalBinary(o)
      [] o.t = "RapidCommitOption" -> RapidCommitOption_MarshalBinary(o)
      [] o.t = "UserClassOption" -> UserClassOption_MarshalBinary(o)
      [] o.t = "VendorClassOption" -> VendorClassOption_MarshalBinary(o)
      [] o.t = "VendorOptsOption" -> VendorOptsOption_MarshalBinary(o)
      [] o.t = "InterfaceIdOption" -> InterfaceIdOption_MarshalBinary(o)
      [] o.t = "ReconfMsgOption" -> ReconfMsgOption_MarshalBinary(o)
      [] o.t = "ReconfAcceptOption" -> ReconfAcceptOption_MarshalBinary(o)
      [] o.t = "NextHopOption" -> NextHopOption_MarshalBinary(o)
      [] o.t = "RtPrefixOption" -> RtPrefixOption_MarshalBinary(o)
      [] o.t = "FQDNOption" -> FQDNOption_MarshalBinary(o)
      [] o.t = "MTUOption" -> MTUOption_MarshalBinary(o)
      [] OTHER -> EncodeFails(GoPanic)

\* The capacity append leaves when a buffer of capacity oldCap has to hold
\* newLen > oldCap octets (runtime.growslice of the gc runtime, Go 1.18 and
\* later, for a []byte): twice the old capacity is skipped when that is not
\* enough, capacities from 256 on grow by a quarter plus 192 until they
\* suffice, and the result is rounded up to the allocator's size, which
\* above 32768 octets is a whole number of 8192-octet pages.  The language
\* promises cap >= len only, and other runtimes round differently.  The
\* buffers grown here start at 32768, so the allocator's small size
\* classes never apply.
GrowSlice(oldCap, newLen) ==
    LET grow[c \in Nat] == IF c >= newLen THEN c ELSE grow[c + (c + 768) \div 4]
        newcap == IF newLen > 2 * oldCap THEN newLen
                  ELSE IF oldCap < 256 THEN 2 * oldCap
                  ELSE grow[oldCap]
    IN  ((newcap + 8191) \div 8192) * 8192

RECURSIVE MessageOptions(_, _, _, _)

\* data = append(data, optionData...) of the message encoders, after
\* opts[i].MarshalBinary() returned r: acc is data, cap its capacity
AppendMessageOption(opts, i, acc, cap, r) ==
    IF r.err # ErrNone THEN EncodeFails(r.err)
    ELSE MessageOptions(opts, i + 1, acc \o Bytes(r.data),
                        IF Len(acc) + SLen(r.data) > cap
                        THEN GrowSlice(cap, Len(acc) + SLen(r.data)) ELSE cap)

\* the option loop of the two message encoders and their return
MessageOptions(opts, i, acc, cap) ==
    IF i > Len(opts) THEN Encoded(MakeSlice(acc, cap))
    ELSE AppendMessageOption(opts, i, acc, cap, Option_MarshalBinary(opts[i]))

\* the buffer is made with the header and capacity 32768
Message_MarshalBinary(header, opts) == MessageOptions(opts, 1, header, 32768)

\* a DhcpMessage encoder that leaves the transaction id octets zero
DhcpMessage_MarshalBinary_NoXid(d) ==
    Message_MarshalBinary(<<d.MsgType, 0, 0, 0>>, d.Options)

DhcpMessage_MarshalBinary(d) ==
    Message_MarshalBinary(<<d.MsgType>> \o d.TransactionId, d.Options)

\* a relay encoder that checks the link address only
DhcpRelayMessage_MarshalBinary_LinkOnly(d) ==
    IF Len(d.LinkAddress) # 16 THEN EncodeFails(ErrInvalidIpv6Address)
    ELSE Message_MarshalBinary(<<d.MsgType, d.HopCount>> \o d.LinkAddress \o d.PeerAddress,
                               d.Options)

DhcpRelayMessage_MarshalBinary(d) ==
    IF Len(d.LinkAddress) # 16 THEN EncodeFails(ErrInvalidIpv6Address)
    ELSE IF Len(d.PeerAddress) # 16 THEN EncodeFails(ErrInvalidIpv6Address)
    ELSE Message_MarshalBinary(<<d.MsgType, d.HopCount>> \o d.LinkAddress \o d.PeerAddress,
                               d.Options)

(***************************************************************************)
(* Decoders.  Each X_UnmarshalBinary(o, data) is the method on receiver o  *)
(* and returns the error with the receiver as the call left it.  olen + 4  *)
(* is uint16 arithmetic wherever the source computes it on a uint16; the   *)
(* comparison len(data) < int(olen)+4 is int arithmetic.                   *)
(***************************************************************************)
\* a loop that repeats the same iteration for ever (it appends to a list
\* until memory runs out)
GoHang == "hang"

\* the length field of the header at data[2:]
Olen(data) == Uint16(From(data, 2))

UnknownOption_UnmarshalBinary(o, data) ==
    IF SLen(data) < 4 THEN DecodeFails(ErrUnexpectedEOF, o)
    ELSE LET o1 == [o EXCEPT !.OptionCode = Uint16(data)]
             olen == Olen(data)
         IN  IF SLen(data) < olen + 4 THEN DecodeFails(ErrUnexpectedEOF, o1)
             ELSE IF ~CanSlice(data, 4, U16(olen + 4)) THEN DecodeFails(GoPanic, o1)
             ELSE Decoded([o1 EXCEPT !.OptionData = Bytes(Slice(data, 4, U16(olen + 4)))])

\* ClientIdOption.UnmarshalBinary and ServerIdOption.UnmarshalBinary
DuidOption_UnmarshalBinary(o, data, code) ==
    IF SLen(data) < 4 THEN DecodeFails(ErrUnexpectedEOF, o)
    ELSE IF Uint16(data) # code THEN DecodeFails(ErrInvalidType, o)
    ELSE LET olen == Olen(data)
         IN  IF SLen(data) < olen + 4 THEN DecodeFails(ErrUnexpectedEOF, o)
             ELSE IF ~CanSlice(data, 4, U16(olen + 4)) THEN DecodeFails(GoPanic, o)
             ELSE LET r == UnmarshalBinaryDuid(Slice(data, 4, U16(olen + 4)))
                  IN  IF r.err # ErrNone THEN DecodeFails(r.err, o)
                      ELSE Decoded([o EXCEPT !.Duid = r.val])

ClientIdOption_UnmarshalBinary(o, data) == DuidOption_UnmarshalBinary(o, data, OptionCodeClientId)

ServerIdOption_UnmarshalBinary(o, data) == DuidOption_UnmarshalBinary(o, data, OptionCodeServerId)

\* The nested-option loop of IaNa, IaTa, IaAddr and NextHop: acc is the list
\* appended to so far.
UnmarshalNested(optionData, acc) ==
    IF SLen(optionData) = 0 THEN [err |-> ErrNone, opts |-> acc]
    ELSE IF SLen(optionData) < 4 THEN [err |-> ErrUnexpectedEOF, opts |-> acc]
    ELSE LET nextSize == Olen(optionData)
             end == U16(nextSize + 4)
         IN  IF ~CanSlice(optionData, 0, end) THEN [err |-> GoPanic, opts |-> acc]
             ELSE LET r == UnmarshalBinaryOption(Slice(optionData, 0, end))
                  IN  IF r.err # ErrNone THEN [err |-> r.err, opts |-> acc]
                      ELSE IF ~CanFrom(optionData, end)
                           THEN [err |-> GoPanic, opts |-> Append(acc, r.val)]
                      ELSE UnmarshalNested(From(optionData, end), Append(acc, r.val))

IaNaOption_UnmarshalBinary(o, data) ==
    IF SLen(data) < 16 THEN DecodeFails(ErrUnexpectedEOF, o)
    ELSE IF Uint16(data) # OptionCodeIaNa THEN DecodeFails(ErrInvalidType, o)
    ELSE LET olen == Olen(data)
         IN  IF SLen(data) < olen + 4 THEN DecodeFails(ErrUnexpectedEOF, o)
             ELSE LET o1 == [o EXCEPT !.IAID = Bytes(Slice(data, 4, 8)),
                                      !.T1 = Uint32(From(data, 8)),
                                      !.T2 = Uint32(From(data, 12)),
                                      !.IaNaOptions = << >>]
                  IN  IF ~CanSlice(data, 16, U16(olen + 4)) THEN DecodeFails(GoPanic, o1)
                      ELSE LET r == UnmarshalNested(Slice(data, 16, U16(olen + 4)), << >>)
                           IN  [err |-> r.err, val |-> [o1 EXCEPT !.IaNaOptions = r.opts]]

IaTaOption_UnmarshalBinary(o, data) ==
    IF SLen(data) < 8 THEN DecodeFails(ErrUnexpectedEOF, o)
    ELSE IF Uint16(data) # OptionCodeIaTa THEN DecodeFails(ErrInvalidType, o)
    ELSE LET olen == Olen(data)
         IN  IF SLen(data) < olen + 4 THEN DecodeFails(ErrUnexpectedEOF, o)
             ELSE LET o1 == [o EXCEPT !.IAID = Bytes(Slice(data, 4, 8)),
                                      !.IaTaOptions = << >>]
                  IN  IF ~CanSlice(data, 8, U16(olen + 4)) THEN DecodeFails(GoPanic, o1)
                      ELSE LET r == UnmarshalNested(Slice(data, 8, U16(olen + 4)), << >>)
                           IN  [err |-> r.err, val |-> [o1 EXCEPT !.IaTaOptions = r.opts]]

IaAddrOption_UnmarshalBinary(o, data) ==
    IF SLen(data) < 28 THEN DecodeFails(ErrUnexpectedEOF, o)
    ELSE IF Uint16(data) # OptionCodeIaAddr THEN DecodeFails(ErrInvalidType, o)
    ELSE LET olen == Olen(data)
         IN  IF SLen(data) < olen + 4 THEN DecodeFails(ErrUnexpectedEOF, o)
             ELSE LET o1 == [o EXCEPT !.Ipv6Address = Bytes(Slice(data, 4, 20)),
                                      !.PreferredLifetime = Uint32(From(data, 20)),
                                      !.ValidLifetime = Uint32(From(data, 24)),
                                      !.IAddrOptions = << >>]
                  IN  IF ~CanSlice(data, 28, U16(olen + 4)) THEN DecodeFails(GoPanic, o1)
                      ELSE LET r == UnmarshalNested(Slice(data, 28, U16(olen + 4)), << >>)
                           IN  [err |-> r.err, val |-> [o1 EXCEPT !.IAddrOptions = r.opts]]

NextHopOption_UnmarshalBinary(o, data) ==
    IF SLen(data) < 20 THEN DecodeFails(ErrUnexpectedEOF, o)
    ELSE IF Uint16(data) # OptionCodeNextHop THEN DecodeFails(ErrInvalidType, o)
    ELSE LET olen == Olen(data)
         IN  IF SLen(data) < olen + 4 THEN DecodeFails(ErrUnexpectedEOF, o)
             ELSE LET o1 == [o EXCEPT !.NextHop = Bytes(Slice(data, 4, 20)),
                                      !.NextHopOptions = << >>]
                  IN  IF ~CanSlice(data, 20, U16(olen + 4)) THEN DecodeFails(GoPanic, o1)
                      ELSE LET r == UnmarshalNested(Slice(data, 20, U16(olen + 4)), << >>)
                           IN  [err |-> r.err, val |-> [o1 EXCEPT !.NextHopOptions = r.opts]]

OroOption_UnmarshalBinary(o, data) ==
    IF SLen(data) < 4 THEN DecodeFails(ErrUnexpectedEOF, o)
    ELSE IF Uint16(data) # OptionCodeOro THEN DecodeFails(ErrInvalidType, o)
    ELSE LET olen == Olen(data)
         IN  IF SLen(data) < olen + 4 THEN DecodeFails(ErrUnexpectedEOF, o)
             ELSE Decoded([o EXCEPT !.RequestedOptionCodes =
                              [i \in 1..(olen \div 2) |-> Uint16(From(data, 4 + (i - 1) * 2))]])

PreferenceOption_UnmarshalBinary(o, data) ==
    IF SLen(data) < 5 THEN DecodeFails(ErrUnexpectedEOF, o)
    ELSE IF Uint16(data) # OptionCodePreference THEN DecodeFails(ErrInvalidType, o)
    ELSE IF Olen(data) # 1 THEN DecodeFails(ErrInvalidData, o)
    ELSE Decoded([o EXCEPT !.PreferenceValue = At(data, 4)])

ElapsedTimeOption_UnmarshalBinary(o, data) ==
    IF SLen(data) < 6 THEN DecodeFails(ErrUnexpectedEOF, o)
    ELSE IF Uint16(data) # OptionCodeElapsedTime THEN DecodeFails(ErrInvalidType, o)
    ELSE IF Olen(data) # 2 THEN DecodeFails(ErrInvalidData, o)
    ELSE Decoded([o EXCEPT !.ElapsedTime = Uint16(From(data, 4))])

\* The option loop of DhcpMessage.UnmarshalBinary and
\* DhcpRelayMessage.UnmarshalBinary: each option is decoded from all the
\* octets that remain, and the cursor moves by the uint16 optSize+4.
\* r is what UnmarshalBinaryOption(data) returned.
AppendDecoded(data, acc, r) ==
    LET optSize == Olen(data)
        step == U16(optSize + 4)
    IN  IF r.err # ErrNone THEN [err |-> r.err, opts |-> acc]
        ELSE IF ~CanFrom(data, step) THEN [err |-> GoPanic, opts |-> Append(acc, r.val)]
        ELSE IF step = 0 THEN [err |-> GoHang, opts |-> Append(acc, r.val)]
        ELSE UnmarshalOptions(From(data, step), Append(acc, r.val))

UnmarshalOptions(data, acc) ==
    IF SLen(data) = 0 THEN [err |-> ErrNone, opts |-> acc]
    ELSE IF SLen(data) < 4 THEN [err |-> ErrUnexpectedEOF, opts |-> acc]
    ELSE AppendDecoded(data, acc, UnmarshalBinaryOption(data))

\* the message d1 with the options the loop decoded, and the loop's error
WithOptions(d1, r) == [err |-> r.err, val |-> [d1 EXCEPT !.Options = r.opts]]

DhcpMessage_UnmarshalBinary(d, data) ==
    IF SLen(data) < 4 THEN DecodeFails(ErrUnexpectedEOF, d)
    ELSE LET d1 == [d EXCEPT !.MsgType = At(data, 0),
                             !.Options = << >>,
                             !.TransactionId = Bytes(Slice(data, 1, 4))]
         IN  WithOptions(d1, UnmarshalOptions(From(data, 4), << >>))

DhcpRelayMessage_UnmarshalBinary(d, data) ==
    IF SLen(data) < 34 THEN DecodeFails(ErrUnexpectedEOF, d)
    ELSE LET d1 == [d EXCEPT !.MsgType = At(data, 0),
                             !.HopCount = At(data, 1),
                             !.LinkAddress = Bytes(Slice(data, 2, 18)),
                             !.PeerAddress = Bytes(Slice(data, 18, 34)),
                             !.Options = << >>]
         IN  WithOptions(d1, UnmarshalOptions(From(data, 34), << >>))

RelayMsgOption_UnmarshalBinary(o, data) ==
    IF SLen(data) < 4 THEN DecodeFails(ErrUnexpectedEOF, o)
    ELSE IF Uint16(data) # OptionCodeRelayMsg THEN DecodeFails(ErrInvalidType, o)
    ELSE LET olen == Olen(data)
         IN  IF SLen(data) < olen + 4 THEN DecodeFails(ErrUnexpectedEOF, o)
             ELSE IF ~CanSlice(data, 4, U16(olen + 4)) THEN DecodeFails(GoPanic, o)
             ELSE LET r == DhcpRelayMessage_UnmarshalBinary(o.DhcpRelayMessage,
                                                            Slice(data, 4, U16(olen + 4)))
                  IN  [err |-> r.err, val |-> [o EXCEPT !.DhcpRelayMessage = r.val]]

AuthOption_UnmarshalBinary(o, data) ==
    IF SLen(data) < 15 THEN DecodeFails(ErrUnexpectedEOF, o)
    ELSE IF Uint16(data) # OptionCodeAuth THEN DecodeFails(ErrInvalidType, o)
    ELSE LET olen == Olen(data)
         IN  IF SLen(data) < olen + 4 THEN DecodeFails(ErrUnexpectedEOF, o)
             ELSE LET o1 == [o EXCEPT !.Protocol = At(data, 4),
                                      !.Algorithm = At(data, 5),
                                      !.RDM = At(data, 6),
                                      !.ReplayDetection = Bytes(Slice(data, 7, 15))]
                  IN  IF ~CanSlice(data, 15, U16(olen + 4)) THEN DecodeFails(GoPanic, o1)
                      ELSE Decoded([o1 EXCEPT !.AuthenticationInformation =
                                       Bytes(Slice(data, 15, U16(olen + 4)))])

UnicastOption_UnmarshalBinary(o, data) ==
    IF SLen(data) < 20 THEN DecodeFails(ErrUnexpectedEOF, o)
    ELSE IF Uint16(data) # OptionCodeUnicast THEN DecodeFails(ErrInvalidType, o)
    ELSE IF Olen(data) # IPv6len THEN DecodeFails(ErrInvalidData, o)
    ELSE Decoded([o EXCEPT !.ServerAddress = Bytes(Slice(data, 4, 20))])

StatusCodeOption_UnmarshalBinary(o, data) ==
    IF SLen(data) < 5 THEN DecodeFails(ErrUnexpectedEOF, o)
    ELSE IF Uint16(data) # OptionCodeStatusCode THEN DecodeFails(ErrInvalidType, o)
    ELSE LET olen == Olen(data)
         IN  IF SLen(data) < olen + 4 THEN DecodeFails(ErrUnexpectedEOF, o)
             ELSE LET o1 == [o EXCEPT !.StatusCode = At(data, 4)]
                  IN  IF ~CanSlice(data, 5, U16(olen + 4)) THEN DecodeFails(GoPanic, o1)
                      ELSE Decoded([o1 EXCEPT !.StatusMessage =
                                       Bytes(Slice(data, 5, U16(olen + 4)))])

RapidCommitOption_UnmarshalBinary(o, data) ==
    IF SLen(data) < 4 THEN DecodeFails(ErrUnexpectedEOF, o)
    ELSE IF Uint16(data) # OptionCodeRapidCommit THEN DecodeFails(ErrInvalidType, o)
    ELSE IF Olen(data) # 0 THEN DecodeFails(ErrInvalidData, o)
    ELSE Decoded(o)

\* The entry loop of UserClass and VendorClass, over data[4:] of the buffer
\* the decoder was given: acc is the list appended to so far.
RECURSIVE UnmarshalEntries(_, _)
UnmarshalEntries(data, acc) ==
    IF SLen(data) = 0 THEN [err |-> ErrNone, entries |-> acc]
    ELSE IF SLen(data) < 2 THEN [err |-> GoPanic, entries |-> acc]
    ELSE LET size == Uint16(data)
             end == U16(size + 2)
         IN  IF ~CanSlice(data, 2, end) THEN [err |-> GoPanic, entries |-> acc]
             ELSE IF ~CanFrom(data, end)
                  THEN [err |-> GoPanic, entries |-> Append(acc, Bytes(Slice(data, 2, end)))]
             ELSE UnmarshalEntries(From(data, end), Append(acc, Bytes(Slice(data, 2, end))))

UserClassOption_UnmarshalBinary(o, data) ==
    IF SLen(data) < 4 THEN DecodeFails(ErrUnexpectedEOF, o)
    ELSE IF Uint16(data) # OptionCodeUserClass THEN DecodeFails(ErrInvalidType, o)
    ELSE IF SLen(data) < Olen(data) + 4 THEN DecodeFails(ErrUnexpectedEOF, o)
    ELSE LET r == UnmarshalEntries(From(data, 4), << >>)
         IN  [err |-> r.err, val |-> [o EXCEPT !.UserClassData = r.entries]]

VendorClassOption_UnmarshalBinary(o, data) ==
    IF SLen(data) < 4 THEN DecodeFails(ErrUnexpectedEOF, o)
    ELSE IF Uint16(data) # OptionCodeVendorClass THEN DecodeFails(ErrInvalidType, o)
    ELSE IF SLen(data) < Olen(data) + 4 THEN DecodeFails(ErrUnexpectedEOF, o)
    ELSE LET r == UnmarshalEntries(From(data, 4), << >>)
         IN  [err |-> r.err, val |-> [o EXCEPT !.VendorClassData = r.entries]]

\* The loop of VendorOptsOption.UnmarshalBinary over data[8:]: acc is the
\* receiver's OptionData, which the loop appends to.
RECURSIVE UnmarshalVendorOpts(_, _)
UnmarshalVendorOpts(data, acc) ==
    IF SLen(data) = 0 THEN [err |-> ErrNone, opts |-> acc]
    ELSE IF SLen(data) < 4 THEN [err |-> ErrUnexpectedEOF, opts |-> acc]
    ELSE LET optLen == Olen(data)
             end == U16(optLen + 4)
         IN  IF SLen(data) < optLen + 4 THEN [err |-> ErrUnexpectedEOF, opts |-> acc]
             ELSE IF ~CanSlice(data, 4, end) THEN [err |-> GoPanic, opts |-> acc]
             ELSE LET acc1 == Append(acc, VendorOptsOptionData(Uint16(data),
                                                               Bytes(Slice(data, 4, end))))
                  IN  IF ~CanFrom(data, end) THEN [err |-> GoPanic, opts |-> acc1]
                      ELSE UnmarshalVendorOpts(From(data, end), acc1)

VendorOptsOption_UnmarshalBinary(o, data) ==
    IF SLen(data) < 8 THEN DecodeFails(ErrUnexpectedEOF, o)
    ELSE IF Uint16(data) # OptionCodeVendorOpts THEN DecodeFails(ErrInvalidType, o)
    ELSE IF SLen(data) < Olen(data) + 4 THEN DecodeFails(ErrUnexpectedEOF, o)
    ELSE LET o1 == [o EXCEPT !.EnterpriseNumber = Uint32(From(data, 4))]
             r == UnmarshalVendorOpts(From(data, 8), o1.OptionData)
         IN  [err |-> r.err, val |-> [o1 EXCEPT !.OptionData = r.opts]]

InterfaceIdOption_UnmarshalBinary(o, data) ==
    IF SLen(data) < 4 THEN DecodeFails(ErrUnexpectedEOF, o)
    ELSE IF Uint16(data) # OptionCodeInterfaceId THEN DecodeFails(ErrInvalidType, o)
    ELSE LET olen == Olen(data)
         IN  IF SLen(data) < olen + 4 THEN DecodeFails(ErrUnexpectedEOF, o)
             ELSE IF ~CanSlice(data, 4, U16(olen + 4)) THEN DecodeFails(GoPanic, o)
             ELSE Decoded([o EXCEPT !.InterfaceId = Bytes(Slice(data, 4, U16(olen + 4)))])

ReconfMsgOption_UnmarshalBinary(o, data) ==
    IF SLen(data) < 5 THEN DecodeFails(ErrUnexpectedEOF, o)
    ELSE IF Uint16(data) # OptionCodeReconfMsg THEN DecodeFails(ErrInvalidType, o)
    ELSE IF Olen(data) # 1 THEN DecodeFails(ErrInvalidData, o)
    ELSE Decoded([o EXCEPT !.MsgType = At(data, 4)])

ReconfAcceptOption_UnmarshalBinary(o, data) ==
    IF SLen(data) < 4 THEN DecodeFails(ErrUnexpectedEOF, o)
    ELSE IF Uint16(data) # OptionCodeReconfAccept THEN DecodeFails(ErrInvalidType, o)
    ELSE IF Olen(data) # 0 THEN DecodeFails(ErrInvalidData, o)
    ELSE Decoded(o)

\* the prefix is data[10:], every octet of the buffer from offset 10
RtPrefixOption_UnmarshalBinary(o, data) ==
    IF SLen(data) < 26 THEN DecodeFails(ErrUnexpectedEOF, o)
    ELSE IF Uint16(data) # OptionCodeRtPrefix THEN DecodeFails(ErrInvalidType, o)
    ELSE IF SLen(data) < Olen(data) + 4 THEN DecodeFails(ErrUnexpectedEOF, o)
    ELSE IF At(data, 8) > 128 THEN DecodeFails(ErrInvalidIpv6Address, o)
    ELSE Decoded([o EXCEPT !.Lifetime = Uint32(From(data, 4)),
                           !.Prefixlen = At(data, 8),
                           !.Metric = At(data, 9),
                           !.Prefix = Bytes(From(data, 10))])

\* Flags is not assigned; the domain name is data[4 : olen+4]
FQDNOption_UnmarshalBinary(o, data) ==
    IF SLen(data) < 5 THEN DecodeFails(ErrUnexpectedEOF, o)
    ELSE IF Uint16(data) # OptionCodeFQDN THEN DecodeFails(ErrInvalidType, o)
    ELSE LET olen == Olen(data)
         IN  IF SLen(data) < olen + 4 THEN DecodeFails(ErrUnexpectedEOF, o)
             ELSE IF ~CanSlice(data, 4, U16(olen + 4)) THEN DecodeFails(GoPanic, o)
             ELSE Decoded([o EXCEPT !.DomainName = Bytes(Slice(data, 4, U16(olen + 4)))])

MTUOption_UnmarshalBinary(o, data) ==
    IF SLen(data) < 6 THEN DecodeFails(ErrUnexpectedEOF, o)
    ELSE IF Uint16(data) # OptionCodeMTU THEN DecodeFails(ErrInvalidType, o)
    ELSE IF SLen(data) < Olen(data) + 4 THEN DecodeFails(ErrUnexpectedEOF, o)
    ELSE Decoded([o EXCEPT !.MTU = Uint16(From(data, 4))])

\* the dynamic dispatch of Option.UnmarshalBinary
Option_UnmarshalBinary(o, data) ==
    CASE o.t = "UnknownOption" -> UnknownOption_UnmarshalBinary(o, data)
      [] o.t = "ClientIdOption" -> ClientIdOption_UnmarshalBinary(o, data)
      [] o.t = "ServerIdOption" -> ServerIdOption_UnmarshalBinary(o, data)
      [] o.t = "IaNaOption" -> IaNaOption_UnmarshalBinary(o, data)
      [] o.t = "IaTaOption" -> IaTaOption_UnmarshalBinary(o, data)
      [] o.t = "IaAddrOption" -> IaAddrOption_UnmarshalBinary(o, data)
      [] o.t = "OroOption" -> OroOption_UnmarshalBinary(o, data)
      [] o.t = "PreferenceOption" -> PreferenceOption_UnmarshalBinary(o, data)
      [] o.t = "ElapsedTimeOption" -> ElapsedTimeOption_UnmarshalBinary(o, data)
      [] o.t = "RelayMsgOption" -> RelayMsgOption_UnmarshalBinary(o, data)
      [] o.t = "AuthOption" -> AuthOption_UnmarshalBinary(o, data)
      [] o.t = "UnicastOption" -> UnicastOption_UnmarshalBinary(o, data)
      [] o.t = "StatusCodeOption" -> StatusCodeOption_UnmarshalBinary(o, data)
      [] o.t = "RapidCommitOption" -> RapidCommitOption_UnmarshalBinary(o, data)
      [] o.t = "UserClassOption" -> UserClassOption_UnmarshalBinary(o, data)
      [] o.t = "VendorClassOption" -> VendorClassOption_UnmarshalBinary(o, data)
      [] o.t = "VendorOptsOption" -> VendorOptsOption_UnmarshalBinary(o, data)
      [] o.t = "InterfaceIdOption" -> InterfaceIdOption_UnmarshalBinary(o, data)
      [] o.t = "ReconfMsgOption" -> ReconfMsgOption_UnmarshalBinary(o, data)
      [] o.t = "ReconfAcceptOption" -> ReconfAcceptOption_UnmarshalBinary(o, data)
      [] o.t = "NextHopOption" -> NextHopOption_UnmarshalBinary(o, data)
      [] o.t = "RtPrefixOption" -> RtPrefixOption_UnmarshalBinary(o, data)
      [] o.t = "FQDNOption" -> FQDNOption_UnmarshalBinary(o, data)
      [] o.t = "MTUOption" -> MTUOption_UnmarshalBinary(o, data)

\* UnmarshalBinaryOption: the code is read before any length check, and
\* the option built is returned together with the error
UnmarshalBinaryOption(data) ==
    IF SLen(data) < 2 THEN DecodeFails(GoPanic, NilValue)
    ELSE Option_UnmarshalBinary(NewOption(Uint16(data)), data)

(***************************************************************************)
(* The state machine.  A caller holds a value or a buffer (arg), calls an  *)
(* encoder (out) or a decoder (back), and may decode what an encoder       *)
(* produced.  op names the last call.  The codec keeps no state between    *)
(* calls, so every behaviour is one call on a fresh caller, followed by    *)
(* the decoding of what it produced.                                       *)
(***************************************************************************)
Init == op = "init" /\ arg = None /\ out = None /\ back = None

\* n octets, the i-th being (i + k) mod 256
Pattern(n, k) == [i \in 1..n |-> (i + k) % 256]

(***************************************************************************)
(* DUID calls.                                                             *)
(***************************************************************************)
\* the longest address or identifier tried (one past the LL ceiling of 126)
MaxDuidData == 127

\* the longest buffer given to UnmarshalBinaryDuid (past the 130 ceiling)
MaxDuidWire == 132

\* the first tag value past the three known ones that is tried
MaxDuidTag == 4

HwTypes == {1, 66}
Times == {0, 54, 16909060}
EnterpriseNumbers == {66, 43793}

\* the DUIDs of the repository's tests (src/unnamed/part_004)
HelloWorld == <<104, 101, 108, 108, 111, 32, 119, 111, 114, 108, 100>>
TestLltDuid == LltDuid(66, 54, <<7, 8, 9, 5>>)
TestEnDuid == EnDuid(66, HelloWorld)
TestLlDuid == LlDuid(66, HelloWorld)

DuidInputs ==
    {LltDuid(hw, tm, Pattern(n, 0)) : hw \in HwTypes, tm \in Times, n \in 0..MaxDuidData}
    \cup {EnDuid(en, Pattern(n, 0)) : en \in EnterpriseNumbers, n \in 0..MaxDuidData}
    \cup {LlDuid(hw, Pattern(n, 0)) : hw \in HwTypes, n \in 0..MaxDuidData}
    \cup {TestLltDuid, TestEnDuid, TestLlDuid}

\* buffers of every length up to MaxDuidWire that start with a tag
DuidWires ==
    {Exact(SubSeq(Put16(tag) \o Pattern(MaxDuidWire, k), 1, n)) :
        tag \in 0..MaxDuidTag, n \in 0..MaxDuidWire, k \in {0, 64}}
    \cup {Exact(<<0, 3, 0, 66>> \o HelloWorld)}

MarshalDuid ==
    \E d \in DuidInputs :
        /\ op = "init"
        /\ op' = "MarshalDuid"
        /\ arg' = d
        /\ out' = Duid_MarshalBinary(d)
        /\ back' = None

\* UnmarshalBinaryDuid on the octets MarshalBinary returned
RoundTripDuid ==
    /\ op = "MarshalDuid"
    /\ out.err = ErrNone
    /\ op' = "RoundTripDuid"
    /\ back' = UnmarshalBinaryDuid(out.data)
    /\ UNCHANGED <<arg, out>>

DecodeDuid ==
    \E b \in DuidWires :
        /\ op = "init"
        /\ op' = "DecodeDuid"
        /\ arg' = b
        /\ out' = None
        /\ back' = UnmarshalBinaryDuid(b)

NextDuid == MarshalDuid \/ RoundTripDuid \/ DecodeDuid

SpecDuid == Init /\ [][NextDuid]_vars

\* the address or identifier of a DUID
DuidData(d) == IF d.t = "EnDuid" THEN d.Identifier ELSE d.LlAddress

\* the ceiling of section 3 of the specification on a DUID's data
DuidCeiling(d) ==
    CASE d.t = "LltDuid" -> 122
      [] d.t = "EnDuid" -> 124
      [] d.t = "LlDuid" -> 126

\* C8: a DUID over its ceiling (122, 124, 126) fails to encode with
\* ErrDuidTooLong, a DUID at or below it encodes without error, and every
\* buffer of more than 130 octets fails to decode with ErrDuidTooLong.
C8_DuidCeilings ==
    /\ op = "MarshalDuid" =>
           IF Len(DuidData(arg)) > DuidCeiling(arg) THEN out.err = ErrDuidTooLong
           ELSE out.err = ErrNone
    /\ op = "DecodeDuid" /\ SLen(arg) > 130 => back.err = ErrDuidTooLong

\* C9: a DUID within its ceiling encodes, and decoding the octets gives a
\* DUID of the same variant with equal fields whose Type() is the tag on
\* the wire.
C9_DuidRoundTrip ==
    /\ op = "MarshalDuid" /\ Len(DuidData(arg)) <= DuidCeiling(arg) => out.err = ErrNone
    /\ op = "RoundTripDuid" =>
           /\ back.err = ErrNone
           /\ back.val = arg
           /\ Duid_Type(back.val) = Uint16(out.data)

\* C10: an LLT DUID encodes to 8+len(ll_address) octets, the tag 1, hw_type
\* at offset 2, time as 32 bits at offset 4 and the address from offset 8;
\* decoding reads the same offsets; the test's DUID encodes to the test's
\* twelve octets.
C10_LltLayout ==
    /\ op = "MarshalDuid" /\ arg.t = "LltDuid" /\ Len(arg.LlAddress) <= 122 =>
           /\ out.err = ErrNone
           /\ Bytes(out.data) = Put16(1) \o Put16(arg.HardwareType) \o Put32(arg.Time)
                                    \o arg.LlAddress
    /\ op = "MarshalDuid" /\ arg = TestLltDuid =>
           Bytes(out.data) = <<0, 1, 0, 66, 0, 0, 0, 54, 7, 8, 9, 5>>
    /\ op = "DecodeDuid" /\ SLen(arg) >= 8 /\ SLen(arg) <= 130 /\ Uint16(arg) = 1 =>
           /\ back.err = ErrNone
           /\ back.val = LltDuid(Uint16(From(arg, 2)), Uint32(From(arg, 4)),
                                 Bytes(From(arg, 8)))

(***************************************************************************)
(* Option calls on small values.                                           *)
(***************************************************************************)
\* the longest octet string in a field of a small option
MaxData == 2

\* the longest nested option list of a small container or message
MaxNested == 2

\* the longest address of a DUID carried by a small ClientId or ServerId
MaxSmallDuid == 3

\* all sequences over S of length at most n
SeqsUpTo(S, n) == UNION {[1..k -> S] : k \in 0..n}

DataBytes == {1, 255}
SmallData == SeqsUpTo(DataBytes, MaxData)

\* the entries of the list options
EntryData == SeqsUpTo({97}, MaxData)

\* two 16-octet addresses, and lengths that are no IPv6 address
Addr16 == Pattern(16, 32)
Addr16b == Pattern(16, 64)
BadAddrs == {<< >>, Pattern(4, 0), Pattern(17, 0)}

TestIAID == <<175, 170, 172, 163>>

\* codes UnmarshalBinaryOption has no case for
UnknownCodes == {0, 10, OptionCodeIaPd, OptionCodeIaPrefix, 43981}

SmallDuids ==
    {LltDuid(66, 54, Pattern(n, 0)) : n \in 0..MaxSmallDuid}
    \cup {EnDuid(43793, Pattern(n, 0)) : n \in 0..MaxSmallDuid}
    \cup {LlDuid(66, Pattern(n, 0)) : n \in 0..MaxSmallDuid}
    \cup {TestLltDuid, TestEnDuid, TestLlDuid}

\* options without nested options, used as the elements of nested lists
LeafPool ==
    {StatusCodeOption(0, <<97>>), StatusCodeOption(1, <<98>>), PreferenceOption(7),
     RapidCommitOption}

IaAddrPool ==
    {IaAddrOption(Addr16, 1, 2, << >>),
     IaAddrOption(Addr16, 1, 2, <<StatusCodeOption(0, <<97>>), StatusCodeOption(1, <<98>>)>>)}

\* an option that does not encode: its DUID is over the LL ceiling
OverlongClientId == ClientIdOption(LlDuid(66, Pattern(DuidCeiling(NewLlDuid) + 1, 0)))

\* DUIDs one below, at and one above the ceiling of their variant
CeilingDuids ==
    {LltDuid(66, 54, Pattern(n, 0)) : n \in 121..123}
    \cup {EnDuid(43793, Pattern(n, 0)) : n \in 123..125}
    \cup {LlDuid(66, Pattern(n, 0)) : n \in 125..127}

LeafLists == SeqsUpTo(LeafPool, MaxNested)
NestedLists == SeqsUpTo(LeafPool \cup IaAddrPool, MaxNested)

\* lists that hold a nil Option
NilLists == {<<NilValue>>, <<PreferenceOption(7), NilValue>>}

RelayPool ==
    {DhcpRelayMessage(12, h, Addr16, Addr16b, opts) : h \in {0, 3}, opts \in LeafLists}

SmallOptions ==
    {UnknownOption(c, d) : c \in UnknownCodes, d \in SmallData}
    \cup {ClientIdOption(d) : d \in SmallDuids}
    \cup {ServerIdOption(d) : d \in SmallDuids}
    \cup {IaNaOption(TestIAID, t[1], t[2], l) : t \in {<<0, 0>>, <<3600, 5400>>}, l \in NestedLists}
    \cup {IaTaOption(TestIAID, l) : l \in NestedLists}
    \cup {IaAddrOption(a, 3600, 5400, l) : a \in {Addr16} \cup BadAddrs, l \in LeafLists}
    \cup {OroOption(c) : c \in {<< >>, <<23>>, <<23, 24, 56>>, <<65535, 0>>}}
    \cup {PreferenceOption(v) : v \in {0, 255}}
    \cup {ElapsedTimeOption(v) : v \in {0, 258, 65535}}
    \cup {RelayMsgOption(m) : m \in RelayPool}
    \cup {RelayMsgOption(DhcpRelayMessage(13, 1, Addr16b, Addr16, <<RelayMsgOption(m)>>)) :
            m \in RelayPool}
    \cup {RelayMsgOption(DhcpRelayMessage(12, 0, a, Addr16, << >>)) : a \in BadAddrs}
    \cup {AuthOption(1, 2, 3, Pattern(8, 8), d) : d \in SmallData}
    \cup {UnicastOption(a) : a \in {Addr16} \cup BadAddrs}
    \cup {StatusCodeOption(c, d) : c \in {0, 5}, d \in SmallData}
    \cup {RapidCommitOption, ReconfAcceptOption}
    \cup {UserClassOption(e) : e \in SeqsUpTo(EntryData, MaxNested)}
    \cup {VendorClassOption(e) : e \in SeqsUpTo(EntryData, MaxNested)}
    \cup {VendorOptsOption(43793, v) :
            v \in SeqsUpTo({VendorOptsOptionData(c, d) : c \in {1, 258}, d \in EntryData},
                           MaxNested)}
    \cup {InterfaceIdOption(d) : d \in SmallData}
    \cup {ReconfMsgOption(m) : m \in {5, 11}}
    \cup {NextHopOption(a, l) : a \in {Addr16} \cup BadAddrs, l \in LeafLists}
    \cup {RtPrefixOption(3600, pl, 1, a) : pl \in {0, 64, 128, 129}, a \in {Addr16} \cup BadAddrs}
    \cup {FQDNOption(f, d) : f \in {0, 1}, d \in SmallData}
    \cup {MTUOption(m) : m \in {0, 1500}}
    \cup {IaAddrOption(a, 3600, 5400, <<OverlongClientId>>) : a \in {Addr16} \cup BadAddrs}
    \cup {NextHopOption(a, <<OverlongClientId>>) : a \in {Addr16} \cup BadAddrs}
    \cup {IaNaOption(TestIAID, 0, 0, l) : l \in NilLists}
    \cup {IaTaOption(TestIAID, l) : l \in NilLists}
    \cup {IaAddrOption(a, 3600, 5400, l) : a \in {Addr16} \cup BadAddrs, l \in NilLists}
    \cup {NextHopOption(a, l) : a \in {Addr16} \cup BadAddrs, l \in NilLists}
    \cup {ClientIdOption(d) : d \in CeilingDuids}
    \cup {ServerIdOption(d) : d \in CeilingDuids}

MarshalOption ==
    \E o \in SmallOptions :
        /\ op = "init"
        /\ op' = "MarshalOption"
        /\ arg' = o
        /\ out' = Option_MarshalBinary(o)
        /\ back' = None

\* UnmarshalBinaryOption on exactly the octets MarshalBinary returned
RoundTripOption ==
    /\ op = "MarshalOption"
    /\ out.err = ErrNone
    /\ op' = "RoundTripOption"
    /\ back' = UnmarshalBinaryOption(out.data)
    /\ UNCHANGED <<arg, out>>

(***************************************************************************)
(* Option decoding of buffers: the encodings of one or two options of each *)
(* type, cut short, with another length field, or followed by more octets. *)
(***************************************************************************)
\* the largest small value written into a length field
MaxWireLen == 32

WireOptions ==
    {UnknownOption(43981, <<1, 2, 3>>), UnknownOption(10, << >>),
     UnknownOption(OptionCodeIaPd, <<1>>), UnknownOption(OptionCodeIaPrefix, <<1>>),
     ClientIdOption(TestEnDuid), ServerIdOption(TestLlDuid),
     IaNaOption(TestIAID, 3600, 5400, << >>),
     IaNaOption(TestIAID, 3600, 5400, <<StatusCodeOption(0, <<97>>)>>),
     IaNaOption(TestIAID, 0, 0,
                <<IaAddrOption(Addr16, 1, 2, <<StatusCodeOption(0, <<97>>),
                                                StatusCodeOption(1, <<98>>)>>)>>),
     IaTaOption(TestIAID, <<StatusCodeOption(0, <<97>>), PreferenceOption(7)>>),
     IaAddrOption(Addr16, 3600, 5400, <<StatusCodeOption(0, <<97>>)>>),
     OroOption(<<23, 24, 56>>), PreferenceOption(7), ElapsedTimeOption(258),
     RelayMsgOption(DhcpRelayMessage(12, 3, Addr16, Addr16b, <<PreferenceOption(7)>>)),
     AuthOption(1, 2, 3, Pattern(8, 8), <<1, 2>>), UnicastOption(Addr16),
     StatusCodeOption(5, <<97, 98>>), RapidCommitOption,
     UserClassOption(<<<<97>>, <<98, 99>>>>), VendorClassOption(<<<<97>>, <<98, 99>>>>),
     VendorOptsOption(43793, <<VendorOptsOptionData(1, <<97>>), VendorOptsOptionData(258, << >>)>>),
     InterfaceIdOption(<<1, 2>>), ReconfMsgOption(5), ReconfAcceptOption,
     NextHopOption(Addr16, <<StatusCodeOption(0, <<97>>)>>),
     RtPrefixOption(3600, 64, 1, Addr16), FQDNOption(1, <<97, 98>>), MTUOption(1500)}

\* the octets of an encoding
Encoding(o) == Bytes(Option_MarshalBinary(o).data)

\* bytes with the header's length field replaced by l
WithLenField(bytes, l) == SubSeq(bytes, 1, 2) \o Put16(l) \o SubSeq(bytes, 5, Len(bytes))

\* the window bytes of a buffer that continues with tail: len is Len(bytes)
Window(bytes, tail) ==
    [b |-> bytes \o tail, size |-> Len(bytes) + Len(tail), off |-> 0, n |-> Len(bytes)]

\* what may follow an option in a buffer
Tails == {<<0>>, <<0, 14, 0, 0>>, <<0, 7, 0, 1, 9>>}

\* bytes cut or zero-filled to a value of l octets, with l in the length field
Resized(bytes, l) ==
    SubSeq(WithLenField(bytes, l) \o Zeros(l), 1, l + 4)

WireLens == 0..MaxWireLen \cup {65532, 65535}

\* every prefix of bytes, the empty one and bytes itself included
Truncations(bytes) == {SubSeq(bytes, 1, n) : n \in 0..Len(bytes)}

OptionWires ==
    UNION {{Exact(t) : t \in Truncations(Encoding(o))} : o \in WireOptions}
    \cup {Exact(WithLenField(Encoding(o), l)) : o \in WireOptions, l \in WireLens}
    \cup {Exact(Resized(Encoding(o), l)) : o \in WireOptions, l \in 0..MaxWireLen}
    \cup {Exact(Encoding(o) \o tl) : o \in WireOptions, tl \in Tails}
    \cup {Window(Encoding(o), tl) : o \in WireOptions, tl \in Tails}

DecodeOption ==
    \E w \in OptionWires :
        /\ op = "init"
        /\ op' = "DecodeOption"
        /\ arg' = w
        /\ out' = None
        /\ back' = UnmarshalBinaryOption(w)

NextOption == MarshalOption \/ RoundTripOption \/ DecodeOption

SpecOption == Init /\ [][NextOption]_vars

(***************************************************************************)
(* Message calls: client/server messages and relay messages built from a  *)
(* pool of options, the Solicit message of the package example, and the    *)
(* decoding of buffers.                                                    *)
(***************************************************************************)
TypeSolicit == 1
TypeRelayForward == 12

\* ExampleDhcpMessage_MarshalBinary
SolicitMessage ==
    DhcpMessage(TypeSolicit, <<160, 167, 162>>,
                <<RapidCommitOption,
                  IaNaOption(TestIAID, 0, 0, << >>),
                  OroOption(<<23, 24, 56>>),
                  ClientIdOption(EnDuid(43793, <<172, 162, 168, 175, 174, 163, 163, 175>>)),
                  ElapsedTimeOption(0)>>)

\* the documented output of the example
SolicitOctets ==
    <<1, 160, 167, 162>>
    \o <<0, 14, 0, 0>>
    \o <<0, 3, 0, 12, 175, 170, 172, 163, 0, 0, 0, 0, 0, 0, 0, 0>>
    \o <<0, 6, 0, 6, 0, 23, 0, 24, 0, 56>>
    \o <<0, 1, 0, 14, 0, 2, 0, 0, 171, 17, 172, 162, 168, 175, 174, 163, 163, 175>>
    \o <<0, 8, 0, 2, 0, 0>>

MsgPool ==
    {RapidCommitOption, PreferenceOption(7), ElapsedTimeOption(0),
     StatusCodeOption(0, <<97>>),
     IaNaOption(TestIAID, 0, 0, << >>),
     IaNaOption(TestIAID, 1, 2,
                <<IaAddrOption(Addr16, 1, 2, <<StatusCodeOption(0, <<97>>),
                                                StatusCodeOption(1, <<98>>)>>)>>),
     OroOption(<<23, 24>>),
     ClientIdOption(TestEnDuid),
     UserClassOption(<<<<97>>>>),
     VendorOptsOption(43793, <<VendorOptsOptionData(1, <<97>>)>>),
     RtPrefixOption(3600, 64, 1, Addr16),
     UnknownOption(43981, <<1, 2, 3>>),
     UnicastOption(<<1, 2>>)}

MsgLists == SeqsUpTo(MsgPool, MaxNested)

DhcpMessages ==
    {SolicitMessage} \cup {DhcpMessage(TypeSolicit, <<160, 167, 162>>, l) : l \in MsgLists}
    \cup {DhcpMessage(TypeSolicit, <<160, 167, 162>>, l) : l \in NilLists}

DhcpRelayMessages ==
    {DhcpRelayMessage(TypeRelayForward, 3, la, Addr16b, l) : la \in {Addr16, <<1, 2>>}, l \in MsgLists}
    \cup {DhcpRelayMessage(TypeRelayForward, 3, Addr16, << >>, << >>)}
    \cup {DhcpRelayMessage(TypeRelayForward, 3, la, Addr16b, l) : la \in {Addr16, <<1, 2>>}, l \in NilLists}

MessageWires ==
    {Exact(t) : t \in Truncations(SolicitOctets)}
    \cup {Exact(SolicitOctets \o tl) : tl \in Tails}
    \cup {Window(SolicitOctets, tl) : tl \in Tails}
    \cup {Exact(<<1, 160, 167, 162>> \o Bytes(w)) : w \in OptionWires}

RelayHeader == <<TypeRelayForward, 3>> \o Addr16 \o Addr16b

RelayWires ==
    {Exact(t) : t \in Truncations(RelayHeader \o <<0, 7, 0, 1, 9>>)}
    \cup {Exact(RelayHeader \o Bytes(w)) : w \in OptionWires}

MarshalMessage ==
    \E d \in DhcpMessages :
        /\ op = "init"
        /\ op' = "MarshalMessage"
        /\ arg' = d
        /\ out' = DhcpMessage_MarshalBinary(d)
        /\ back' = None

RoundTripMessage ==
    /\ op = "MarshalMessage"
    /\ out.err = ErrNone
    /\ op' = "RoundTripMessage"
    /\ back' = DhcpMessage_UnmarshalBinary(NewDhcpMessage, out.data)
    /\ UNCHANGED <<arg, out>>

DecodeMessage ==
    \E w \in MessageWires :
        /\ op = "init"
        /\ op' = "DecodeMessage"
        /\ arg' = w
        /\ out' = None
        /\ back' = DhcpMessage_UnmarshalBinary(NewDhcpMessage, w)

MarshalRelay ==
    \E d \in DhcpRelayMessages :
        /\ op = "init"
        /\ op' = "MarshalRelay"
        /\ arg' = d
        /\ out' = DhcpRelayMessage_MarshalBinary(d)
        /\ back' = None

RoundTripRelay ==
    /\ op = "MarshalRelay"
    /\ out.err = ErrNone
    /\ op' = "RoundTripRelay"
    /\ back' = DhcpRelayMessage_UnmarshalBinary(NewDhcpRelayMessage, out.data)
    /\ UNCHANGED <<arg, out>>

DecodeRelay ==
    \E w \in RelayWires :
        /\ op = "init"
        /\ op' = "DecodeRelay"
        /\ arg' = w
        /\ out' = None
        /\ back' = DhcpRelayMessage_UnmarshalBinary(NewDhcpRelayMessage, w)

NextMsg ==
    \/ MarshalMessage
    \/ RoundTripMessage
    \/ DecodeMessage
    \/ MarshalRelay
    \/ RoundTripRelay
    \/ DecodeRelay

SpecMsg == Init /\ [][NextMsg]_vars

(***************************************************************************)
(* Option calls at the ceilings: for each option type with a variable part *)
(* the values whose encoded size lies within BigSpan octets of the type's  *)
(* ceiling, on both sides of it.  The codecs run on the octet sequences    *)
(* themselves; the state keeps each long sequence as its runs (value and   *)
(* count of each maximal block of equal elements), a one-to-one rendering, *)
(* so that equal values have equal renderings and different values        *)
(* different ones.                                                         *)
(***************************************************************************)
BigSpan == 3

Around(n) == (n - BigSpan)..(n + BigSpan)

BigData(n) == [i \in 1..n |-> 97]

BigOptions ==
    {UnknownOption(43981, BigData(n)) : n \in Around(65533)}
    \cup {FQDNOption(1, BigData(n)) : n \in Around(65534)}
    \cup {InterfaceIdOption(BigData(n)) : n \in Around(65534)}
    \cup {StatusCodeOption(1, BigData(n)) : n \in Around(65533)}
    \cup {AuthOption(1, 2, 3, Pattern(8, 8), BigData(n)) : n \in Around(65523)}
    \cup {OroOption([i \in 1..n |-> 5911]) : n \in Around(32767)}
    \cup {UserClassOption(<<BigData(n), <<98>>>>) : n \in Around(65533)}
    \cup {VendorClassOption(<<BigData(n), <<98>>>>) : n \in Around(65530)}
    \cup {VendorOptsOption(43793, <<VendorOptsOptionData(1, BigData(n))>>) : n \in Around(65526)}
    \cup {IaNaOption(TestIAID, 1, 2, <<UnknownOption(43981, BigData(n))>>) : n \in Around(65518)}
    \cup {IaTaOption(TestIAID, <<UnknownOption(43981, BigData(n))>>) : n \in Around(65526)}
    \cup {IaAddrOption(Addr16, 1, 2, <<UnknownOption(43981, BigData(n))>>) :
            n \in Around(63327) \cup Around(65506)}
    \cup {NextHopOption(Addr16, <<UnknownOption(43981, BigData(n))>>) : n \in Around(65514)}
    \cup {RelayMsgOption(DhcpRelayMessage(TypeRelayForward, 0, Addr16, Addr16b,
                                           <<UnknownOption(43981, BigData(n))>>)) :
            n \in Around(65496)}

\* the elements of a finite set of integers in increasing order
RECURSIVE Sorted(_)
Sorted(S) ==
    IF S = {} THEN << >>
    ELSE LET m == CHOOSE x \in S : \A y \in S : x <= y
         IN  <<m>> \o Sorted(S \ {m})

\* the runs of a sequence: <<7, 7, 7, 9>> is <<[v |-> 7, n |-> 3], [v |-> 9, n |-> 1]>>
Runs(seq) ==
    LET s == seq \o << >>
        starts == Sorted({i \in 1..Len(s) : i = 1 \/ s[i] # s[i - 1]})
    IN  [k \in 1..Len(starts) |->
            [v |-> s[starts[k]],
             n |-> (IF k = Len(starts) THEN Len(s) + 1 ELSE starts[k + 1]) - starts[k]]]

\* the sequence with the given runs
RECURSIVE Expand(_)
Expand(runs) ==
    IF runs = << >> THEN << >>
    ELSE [i \in 1..Head(runs).n |-> Head(runs).v] \o Expand(Tail(runs))

Leaf(pack, seq) == IF pack THEN Runs(seq) ELSE Expand(seq)

\* an option with every variable-length field rendered (pack) or restored
RECURSIVE Render(_, _)
Render(pack, o) ==
    LET Each(l) == [i \in 1..Len(l) |-> Render(pack, l[i])]
        Entries(l) == [i \in 1..Len(l) |-> Leaf(pack, l[i])]
    IN  CASE o.t = "UnknownOption" -> [o EXCEPT !.OptionData = Leaf(pack, @)]
          [] o.t = "IaNaOption" -> [o EXCEPT !.IaNaOptions = Each(@)]
          [] o.t = "IaTaOption" -> [o EXCEPT !.IaTaOptions = Each(@)]
          [] o.t = "IaAddrOption" -> [o EXCEPT !.IAddrOptions = Each(@)]
          [] o.t = "NextHopOption" -> [o EXCEPT !.NextHopOptions = Each(@)]
          [] o.t = "OroOption" -> [o EXCEPT !.RequestedOptionCodes = Leaf(pack, @)]
          [] o.t = "RelayMsgOption" ->
                [o EXCEPT !.DhcpRelayMessage = Render(pack, @)]
          [] o.t = "DhcpRelayMessage" -> [o EXCEPT !.Options = Each(@)]
          [] o.t = "DhcpMessage" -> [o EXCEPT !.Options = Each(@)]
          [] o.t = "AuthOption" -> [o EXCEPT !.AuthenticationInformation = Leaf(pack, @)]
          [] o.t = "StatusCodeOption" -> [o EXCEPT !.StatusMessage = Leaf(pack, @)]
          [] o.t = "UserClassOption" -> [o EXCEPT !.UserClassData = Entries(@)]
          [] o.t = "VendorClassOption" -> [o EXCEPT !.VendorClassData = Entries(@)]
          [] o.t = "VendorOptsOption" ->
                [o EXCEPT !.OptionData =
                    [i \in 1..Len(@) |-> [@[i] EXCEPT !.OptionData = Leaf(pack, @)]]]
          [] o.t = "InterfaceIdOption" -> [o EXCEPT !.InterfaceId = Leaf(pack, @)]
          [] o.t = "FQDNOption" -> [o EXCEPT !.DomainName = Leaf(pack, @)]
          [] OTHER -> o

\* the result of an encoder, and of a decoder, as the state keeps it
PackEncoded(r) == [r EXCEPT !.data.b = Runs(@)]
PackDecoded(r) == [r EXCEPT !.val = Render(TRUE, @)]

\* what the state's renderings stand for
Option(a) == Render(FALSE, a)
Octets(d) == Expand(d.b)

MarshalBig ==
    \E o \in BigOptions :
        /\ op = "init"
        /\ op' = "MarshalBig"
        /\ arg' = Render(TRUE, o)
        /\ out' = PackEncoded(Option_MarshalBinary(o))
        /\ back' = None

\* the caller's encode followed by the decode of what it produced
RoundTripBig ==
    \E o \in BigOptions :
        LET r == Option_MarshalBinary(o)
        IN  /\ op = "init"
            /\ r.err = ErrNone
            /\ op' = "RoundTripBig"
            /\ arg' = Render(TRUE, o)
            /\ out' = PackEncoded(r)
            /\ back' = PackDecoded(UnmarshalBinaryOption(r.data))

\* buffers that hold exactly one option with a length field near 65535: an
\* option of an unassigned code and an option request option
BigWireCodes == {10, OptionCodeOro}

BigWireLens == {l \in Around(65532) : l <= 65535}

BigWires == {Exact(Header(c, l) \o BigData(l)) : c \in BigWireCodes, l \in BigWireLens}

\* a buffer as the state keeps it
PackBuffer(w) == [w EXCEPT !.b = Runs(@)]

DecodeBig ==
    \E w \in BigWires :
        /\ op = "init"
        /\ op' = "DecodeBig"
        /\ arg' = PackBuffer(w)
        /\ out' = None
        /\ back' = PackDecoded(UnmarshalBinaryOption(w))

\* a Solicit message whose only option is the one of a big buffer
DecodeBigMessage ==
    \E w \in BigWires :
        LET m == Exact(<<TypeSolicit, 160, 167, 162>> \o w.b)
        IN  /\ op = "init"
            /\ op' = "DecodeBigMessage"
            /\ arg' = PackBuffer(m)
            /\ out' = None
            /\ back' = PackDecoded(DhcpMessage_UnmarshalBinary(NewDhcpMessage, m))

NextBig == MarshalBig \/ RoundTripBig \/ DecodeBig \/ DecodeBigMessage

SpecBig == Init /\ [][NextBig]_vars

(***************************************************************************)
(* Repeated decoding into one receiver.  The caller keeps a message or an  *)
(* option struct and calls its UnmarshalBinary up to MaxCalls times, each  *)
(* time on a buffer of the receiver's kind.  arg is the buffer of the last *)
(* call, out.recv the receiver as that call found it, back what the call   *)
(* returned and left in the receiver.                                      *)
(***************************************************************************)
\* the number of calls on one receiver
MaxCalls == 3

\* the UnmarshalBinary method of the receiver recv
Receiver_UnmarshalBinary(recv, data) ==
    CASE recv.t = "DhcpMessage" -> DhcpMessage_UnmarshalBinary(recv, data)
      [] recv.t = "DhcpRelayMessage" -> DhcpRelayMessage_UnmarshalBinary(recv, data)
      [] recv.t = "VendorOptsOption" -> VendorOptsOption_UnmarshalBinary(recv, data)
      [] recv.t = "FQDNOption" -> FQDNOption_UnmarshalBinary(recv, data)
      [] recv.t = "IaNaOption" -> IaNaOption_UnmarshalBinary(recv, data)
      [] recv.t = "UserClassOption" -> UserClassOption_UnmarshalBinary(recv, data)

\* the zero values a caller may decode into
Receivers ==
    {NewDhcpMessage, NewDhcpRelayMessage, NewOption(OptionCodeVendorOpts),
     NewOption(OptionCodeFQDN), NewOption(OptionCodeIaNa), NewOption(OptionCodeUserClass)}

\* the buffers decoded into a receiver of the kind of recv
ReceiverWires(recv) ==
    CASE recv.t = "DhcpMessage" ->
            {Exact(<<1, 160, 167, 162>>), Exact(<<2, 1, 2, 3, 0, 14, 0, 0>>),
             Exact(<<3, 4, 5, 6, 0, 7, 0, 1, 9, 0>>)}
      [] recv.t = "DhcpRelayMessage" ->
            {Exact(RelayHeader), Exact(RelayHeader \o <<0, 7, 0, 1, 9>>),
             Exact(<<13, 0>> \o Addr16b \o Addr16 \o <<0, 14, 0, 0, 0>>)}
      [] recv.t = "VendorOptsOption" ->
            {Exact(<<0, 17, 0, 9, 0, 0, 171, 17, 0, 1, 0, 1, 97>>),
             Exact(<<0, 17, 0, 4, 0, 0, 0, 66>>),
             Exact(<<0, 17, 0, 9, 0, 0, 0, 66, 0, 2, 0, 1, 98, 0>>)}
      [] recv.t = "FQDNOption" ->
            {Exact(<<0, 39, 0, 3, 1, 97, 98>>), Exact(<<0, 39, 0, 1, 0>>),
             Exact(<<0, 39, 0, 9, 1>>)}
      [] recv.t = "IaNaOption" ->
            {Exact(<<0, 3, 0, 18>> \o TestIAID \o <<0, 0, 14, 16, 0, 0, 21, 24>>
                       \o <<0, 13, 0, 2, 0, 97>>),
             Exact(<<0, 3, 0, 12, 1, 2, 3, 4, 0, 0, 0, 0, 0, 0, 0, 0>>),
             Exact(<<0, 3, 0, 17>> \o TestIAID \o <<0, 0, 0, 1, 0, 0, 0, 2>>
                       \o <<0, 7, 0, 1, 7, 0>>)}
      [] recv.t = "UserClassOption" ->
            {Exact(<<0, 15, 0, 3, 0, 1, 97>>), Exact(<<0, 15, 0, 0>>),
             Exact(<<0, 15, 0, 9, 0>>)}

\* the first call, on a zero value
DecodeInto ==
    \E recv \in Receivers : \E w \in ReceiverWires(recv) :
        /\ op = "init"
        /\ op' = "DecodeInto"
        /\ arg' = w
        /\ out' = [recv |-> recv, calls |-> 1]
        /\ back' = Receiver_UnmarshalBinary(recv, w)

\* a later call on the receiver as the call before left it
DecodeIntoAgain ==
    /\ op \in {"DecodeInto", "DecodeIntoAgain"}
    /\ out.calls < MaxCalls
    /\ back.err # GoPanic
    /\ \E w \in ReceiverWires(out.recv) :
        /\ op' = "DecodeIntoAgain"
        /\ arg' = w
        /\ out' = [recv |-> back.val, calls |-> out.calls + 1]
        /\ back' = Receiver_UnmarshalBinary(back.val, w)

NextReuse == DecodeInto \/ DecodeIntoAgain

SpecReuse == Init /\ [][NextReuse]_vars

(***************************************************************************)
(* All the calls on small values.                                          *)
(***************************************************************************)
Next == NextDuid \/ NextOption \/ NextMsg

Spec == Init /\ [][Next]_vars

(***************************************************************************)
(* Properties of the option and message codecs.                            *)
(***************************************************************************)
KnownTypes ==
    {"ClientIdOption", "ServerIdOption", "IaNaOption", "IaTaOption", "IaAddrOption",
     "OroOption", "PreferenceOption", "ElapsedTimeOption", "RelayMsgOption", "AuthOption",
     "UnicastOption", "StatusCodeOption", "RapidCommitOption", "UserClassOption",
     "VendorClassOption", "VendorOptsOption", "InterfaceIdOption", "ReconfMsgOption",
     "ReconfAcceptOption", "FQDNOption", "NextHopOption", "RtPrefixOption", "MTUOption"}

\* C1: an option of a known type whose fields are within their length
\* ceilings is not refused for its length and does not crash the encoder, and
\* UnmarshalBinaryOption on exactly the octets produced returns an option
\* equal to the original.
C1_OptionRoundTrip ==
    /\ op = "MarshalOption" /\ arg.t \in KnownTypes =>
           out.err \notin {ErrWontFit, ErrDuidTooLong, GoPanic}
    /\ op = "RoundTripOption" /\ arg.t \in KnownTypes =>
           back.err = ErrNone /\ back.val = arg

\* C2: decoding the encoding of a DhcpMessage gives the same msg_type, the
\* same transaction id and the same options in the same order, at every
\* nesting level.
C2_MessageRoundTrip ==
    op = "RoundTripMessage" =>
        /\ back.err = ErrNone
        /\ back.val.MsgType = arg.MsgType
        /\ back.val.TransactionId = arg.TransactionId
        /\ back.val.Options = arg.Options

\* C3: the Solicit message of the example encodes to exactly the documented
\* octets, and decoding those octets gives back an equal message.
C3_SolicitExample ==
    /\ op = "MarshalMessage" /\ arg = SolicitMessage =>
           out.err = ErrNone /\ Bytes(out.data) = SolicitOctets
    /\ op = "RoundTripMessage" /\ arg = SolicitMessage =>
           back.err = ErrNone /\ back.val = SolicitMessage
    /\ op = "DecodeMessage" /\ Bytes(arg) = SolicitOctets /\ SCap(arg) = SLen(arg) =>
           back.err = ErrNone /\ back.val = SolicitMessage

\* the Solicit message was encoded to the documented octets and decoded back
C3_SolicitDecoded ==
    /\ op = "RoundTripMessage"
    /\ arg = SolicitMessage
    /\ Bytes(out.data) = SolicitOctets
    /\ back.val = SolicitMessage

\* C4: no decoder reaches an out-of-range access or an inverted slice,
\* whatever octets it is given, and a buffer of fewer than four octets (two
\* for a DUID) is answered with ErrUnexpectedEOF.
C4_NoPanic ==
    /\ op \in {"DecodeOption", "DecodeDuid", "DecodeMessage", "DecodeRelay"} =>
           back.err # GoPanic
    /\ op \in {"DecodeOption", "DecodeMessage"} /\ SLen(arg) < 4 =>
           back.err = ErrUnexpectedEOF
    /\ op = "DecodeDuid" /\ SLen(arg) < 2 => back.err = ErrUnexpectedEOF

\* C5: an UnknownOption whose code is not a known code and whose data has
\* at most 65535 octets encodes, the decoding of its octets is the same
\* UnknownOption, and encoding that again gives the same octets.
C5_UnknownRoundTrip ==
    /\ op = "MarshalBig" /\ arg.t = "UnknownOption" /\ Len(Option(arg).OptionData) <= 65535 =>
           out.err = ErrNone
    /\ op = "RoundTripBig" /\ arg.t = "UnknownOption" =>
           /\ back.err = ErrNone
           /\ back.val = arg
           /\ PackEncoded(Option_MarshalBinary(Option(back.val))) = out

\* C6: in the octets of every option that encodes, the 16-bit value at
\* octets 2..3 is the number of octets minus 4 and the 16-bit value at
\* octets 0..1 is the option's code.
C6_LengthField ==
    op = "MarshalBig" /\ out.err = ErrNone =>
        LET data == Exact(Octets(out.data))
        IN  /\ Uint16(From(data, 2)) = SLen(data) - 4
            /\ Uint16(data) = Option_Code(Option(arg))

\* what the entries of a UserClass or VendorClass option occupy
RECURSIVE EntriesLen(_)
EntriesLen(entries) ==
    IF entries = << >> THEN 0 ELSE 2 + Len(Head(entries)) + EntriesLen(Tail(entries))

\* what the sub-options of a VendorOpts option occupy
RECURSIVE VendorOptsLen(_)
VendorOptsLen(opts) ==
    IF opts = << >> THEN 0 ELSE 4 + Len(Head(opts).OptionData) + VendorOptsLen(Tail(opts))

\* the number of octets of the body an option's fields call for
RECURSIVE BodyLen(_)
RECURSIVE NestedLen(_)
NestedLen(opts) ==
    IF opts = << >> THEN 0 ELSE 4 + BodyLen(Head(opts)) + NestedLen(Tail(opts))

BodyLen(o) ==
    CASE o.t = "UnknownOption" -> Len(o.OptionData)
      [] o.t \in {"ClientIdOption", "ServerIdOption"} -> SLen(Duid_MarshalBinary(o.Duid).data)
      [] o.t = "IaNaOption" -> 12 + NestedLen(o.IaNaOptions)
      [] o.t = "IaTaOption" -> 4 + NestedLen(o.IaTaOptions)
      [] o.t = "IaAddrOption" -> 24 + NestedLen(o.IAddrOptions)
      [] o.t = "NextHopOption" -> 16 + NestedLen(o.NextHopOptions)
      [] o.t = "RelayMsgOption" -> 34 + NestedLen(o.DhcpRelayMessage.Options)
      [] o.t = "OroOption" -> 2 * Len(o.RequestedOptionCodes)
      [] o.t = "AuthOption" -> 11 + Len(o.AuthenticationInformation)
      [] o.t = "StatusCodeOption" -> 1 + Len(o.StatusMessage)
      [] o.t = "UserClassOption" -> EntriesLen(o.UserClassData)
      [] o.t = "VendorClassOption" -> EntriesLen(o.VendorClassData)
      [] o.t = "VendorOptsOption" -> 4 + VendorOptsLen(o.OptionData)
      [] o.t = "InterfaceIdOption" -> Len(o.InterfaceId)
      [] o.t = "FQDNOption" -> 1 + Len(o.DomainName)
      [] o.t = "UnicastOption" -> 16
      [] o.t = "RtPrefixOption" -> 22
      [] o.t \in {"ElapsedTimeOption", "MTUOption"} -> 2
      [] o.t \in {"PreferenceOption", "ReconfMsgOption"} -> 1
      [] OTHER -> 0

\* the option is over the 65535 octets of a body or over its own ceiling
OverCeiling(o) ==
    \/ BodyLen(o) > 65535
    \/ o.t = "OroOption" /\ Len(o.RequestedOptionCodes) > 32767
    \/ o.t = "AuthOption" /\ Len(o.AuthenticationInformation) > 65524

\* C7: an option whose body would exceed 65535 octets, or its own ceiling
\* (Oro 32767 codes, Auth 65524 octets of authentication information), is
\* refused with ErrWontFit and no octets.
C7_WontFit ==
    op = "MarshalBig" /\ OverCeiling(Option(arg)) =>
        out.err = ErrWontFit /\ SLen(out.data) = 0

(***************************************************************************)
(* Properties of the decoders' error answers.                              *)
(***************************************************************************)
\* the shortest encoding of the variant a DUID tag names
DuidMinimum(tag) ==
    CASE tag = DuidTypeLlt -> 8
      [] tag = DuidTypeEn -> 6
      [] tag = DuidTypeLl -> 4

\* C11: UnmarshalBinaryDuid answers a buffer of 0 or 1 octets, and a buffer
\* shorter than the minimum of the variant its tag names, with
\* ErrUnexpectedEOF, and a tag other than 1, 2, 3 with ErrInvalidType; in
\* each case no DUID is returned with the error.
C11_DuidErrors ==
    op = "DecodeDuid" =>
        /\ SLen(arg) < 2 => back.err = ErrUnexpectedEOF /\ back.val = NilValue
        /\ SLen(arg) >= 2 /\ Uint16(arg) \notin {DuidTypeLlt, DuidTypeEn, DuidTypeLl} =>
               back.err = ErrInvalidType /\ back.val = NilValue
        /\ SLen(arg) >= 2 /\ Uint16(arg) \in {DuidTypeLlt, DuidTypeEn, DuidTypeLl}
                /\ SLen(arg) < DuidMinimum(Uint16(arg)) =>
               back.err = ErrUnexpectedEOF /\ back.val = NilValue

\* the options with a body of fixed length: <<code, length>>
FixedLengths ==
    {<<OptionCodePreference, 1>>, <<OptionCodeElapsedTime, 2>>, <<OptionCodeRapidCommit, 0>>,
     <<OptionCodeReconfAccept, 0>>, <<OptionCodeUnicast, 16>>, <<OptionCodeReconfMsg, 1>>,
     <<OptionCodeMTU, 2>>}

\* C12: a buffer that starts with the header of a fixed-length option whose
\* length field is not the fixed length is answered with ErrInvalidData,
\* whatever follows the header.
C12_FixedLength ==
    op = "DecodeOption" /\ SLen(arg) >= 4 =>
        \A p \in FixedLengths :
            Uint16(arg) = p[1] /\ Olen(arg) # p[2] => back.err = ErrInvalidData

\* what C13 asks of UnmarshalBinaryOption's answer r to the buffer w, which
\* holds at least the 4+length octets its header announces
Dispatched(w, r) ==
    LET code == Uint16(w)
    IN  /\ code \notin KnownCodes =>
               /\ r.err = ErrNone
               /\ r.val = UnknownOption(code, Bytes(Slice(w, 4, 4 + Olen(w))))
        /\ r.err = ErrNone =>
               /\ Option_Code(r.val) = code
               /\ r.val.t = "UnknownOption" <=> code \notin KnownCodes

\* C13: a buffer that holds the 4+length octets its header announces and
\* whose code is not a known one decodes without error to the UnknownOption
\* of that code and exactly the length body octets; every option that
\* decodes has the code on the wire as its Code(), and is an UnknownOption
\* only for a code that is not known.
C13_Dispatch ==
    /\ op = "DecodeOption" /\ SLen(arg) >= 4 /\ SLen(arg) >= Olen(arg) + 4 =>
           Dispatched(arg, back)
    /\ op = "DecodeBig" =>
           Dispatched([arg EXCEPT !.b = Expand(@)], [back EXCEPT !.val = Option(@)])

\* C17: the option loop of a message decoder ends on every buffer.
C17_LoopsEnd ==
    op \in {"DecodeMessage", "DecodeRelay", "RoundTripMessage", "RoundTripRelay",
            "DecodeOption", "RoundTripOption", "DecodeBig", "DecodeBigMessage"} =>
        back.err # GoHang

(***************************************************************************)
(* Properties of the encoders' address checks and of the relay layout.     *)
(***************************************************************************)
\* the octets of the encodings of a list of options, one after the other
RECURSIVE Encodings(_)
Encodings(opts) ==
    IF opts = << >> THEN << >> ELSE Encoding(Head(opts)) \o Encodings(Tail(opts))

\* every option of the list encodes
AllEncode(opts) == \A i \in 1..Len(opts) : Option_MarshalBinary(opts[i]).err = ErrNone

\* C14: a relay message encodes only with a 16-octet link address and a
\* 16-octet peer address (ErrInvalidIpv6Address and no octets otherwise);
\* its octets are msg_type, hop_count, the link address at offset 2, the
\* peer address at offset 18 and the options' encodings in list order from
\* offset 34.  A buffer of fewer than 34 octets decodes to ErrUnexpectedEOF
\* and one of exactly 34 octets to the message of its header without
\* options.
C14_RelayLayout ==
    /\ op = "MarshalRelay" =>
           IF Len(arg.LinkAddress) # 16 \/ Len(arg.PeerAddress) # 16
           THEN out.err = ErrInvalidIpv6Address /\ SLen(out.data) = 0
           ELSE IF AllEncode(arg.Options)
           THEN /\ out.err = ErrNone
                /\ Bytes(out.data) = <<arg.MsgType, arg.HopCount>> \o arg.LinkAddress
                                         \o arg.PeerAddress \o Encodings(arg.Options)
           ELSE out.err # ErrNone
    /\ op = "DecodeRelay" /\ SLen(arg) < 34 => back.err = ErrUnexpectedEOF
    /\ op = "DecodeRelay" /\ SLen(arg) = 34 =>
           /\ back.err = ErrNone
           /\ back.val = DhcpRelayMessage(At(arg, 0), At(arg, 1), Bytes(Slice(arg, 2, 18)),
                                          Bytes(Slice(arg, 18, 34)), << >>)

\* a relay message with two options was encoded, options from offset 34
C14_RelayEncoded ==
    /\ op = "MarshalRelay"
    /\ Len(arg.Options) >= 2
    /\ out.err = ErrNone
    /\ SLen(out.data) > 34
    /\ Bytes(From(out.data, 34)) = Encodings(arg.Options)

\* the address field of an option that carries one
AddressOf(o) ==
    CASE o.t = "UnicastOption" -> o.ServerAddress
      [] o.t = "IaAddrOption" -> o.Ipv6Address
      [] o.t = "NextHopOption" -> o.NextHop
      [] o.t = "RtPrefixOption" -> o.Prefix

\* C15: Unicast, IaAddr, NextHop and RtPrefix with an address that is not
\* 16 octets long, and RtPrefix with a prefix length over 128, fail to
\* encode with ErrInvalidIpv6Address, also when a nested option of the
\* container would fail to encode.
C15_AddressChecks ==
    op = "MarshalOption"
        /\ arg.t \in {"UnicastOption", "IaAddrOption", "NextHopOption", "RtPrefixOption"}
        /\ (Len(AddressOf(arg)) # 16 \/ (arg.t = "RtPrefixOption" /\ arg.Prefixlen > 128)) =>
        out.err = ErrInvalidIpv6Address /\ SLen(out.data) = 0

\* an IaAddr with a bad address and a nested option that does not encode
\* was refused for its address
C15_RefusedBeforeNested ==
    /\ op = "MarshalOption"
    /\ arg.t = "IaAddrOption"
    /\ Len(arg.Ipv6Address) # 16
    /\ Len(arg.IAddrOptions) > 0
    /\ ~AllEncode(arg.IAddrOptions)
    /\ out.err = ErrInvalidIpv6Address

(***************************************************************************)
(* Properties of what a failed decode leaves with its caller.              *)
(***************************************************************************)
\* the errors a decoder returns (a panic or an endless loop returns nothing)
Returned(e) == e \notin {ErrNone, GoPanic, GoHang}

\* C16: a decoder that returns an error returns nothing else:
\* UnmarshalBinaryOption and UnmarshalBinaryDuid return no option and no
\* DUID with it, and a message decoder leaves none of the options it had
\* decoded before the failing one with the caller.
C16_NoPartialResult ==
    /\ op \in {"DecodeOption", "RoundTripOption", "DecodeDuid", "RoundTripDuid"}
            /\ Returned(back.err) =>
           back.val = NilValue
    /\ op \in {"DecodeMessage", "RoundTripMessage", "DecodeRelay", "RoundTripRelay"}
            /\ Returned(back.err) =>
           back.val.Options = << >>

(***************************************************************************)
(* Properties of the option loops.                                         *)
(***************************************************************************)
\* an IaTa option whose nested option list is the octets bytes
AsIaTa(bytes) == Exact(Header(OptionCodeIaTa, 4 + Len(bytes)) \o TestIAID \o bytes)

\* the message decoder's answer r to an option list is the IaTa decoder's
\* answer to the same octets as a nested list
SameAsNested(bytes, r) ==
    LET n == IaTaOption_UnmarshalBinary(NewOption(OptionCodeIaTa), AsIaTa(bytes))
    IN  IF n.err = ErrNone THEN r.err = ErrNone /\ r.val.Options = n.val.IaTaOptions
        ELSE r.err = n.err

\* C18: the octets after the header of a DhcpMessage or DhcpRelayMessage
\* decode to the same options, or to the same error, as the same octets
\* decode to as the nested option list of a container.
C18_SameAsNested ==
    /\ op = "DecodeMessage" /\ SLen(arg) >= 4 => SameAsNested(Bytes(From(arg, 4)), back)
    /\ op = "DecodeRelay" /\ SLen(arg) >= 34 => SameAsNested(Bytes(From(arg, 34)), back)
    /\ op = "RoundTripMessage" => SameAsNested(Bytes(From(out.data, 4)), back)
    /\ op = "RoundTripRelay" => SameAsNested(Bytes(From(out.data, 34)), back)

\* where the nested option list starts in the buffer of a container
NestedOffset(code) ==
    CASE code = OptionCodeIaNa -> 16
      [] code = OptionCodeIaTa -> 8
      [] code = OptionCodeIaAddr -> 28
      [] code = OptionCodeNextHop -> 20

ContainerCodes == {OptionCodeIaNa, OptionCodeIaTa, OptionCodeIaAddr, OptionCodeNextHop}

\* data is the buffer of a container whose fixed part is complete and whose
\* declared length lies inside the buffer
HasNestedRegion(data) ==
    /\ SLen(data) >= 4
    /\ Uint16(data) \in ContainerCodes
    /\ SLen(data) >= NestedOffset(Uint16(data))
    /\ Olen(data) + 4 >= NestedOffset(Uint16(data))
    /\ Olen(data) + 4 <= SLen(data)

\* the octets of the container's value window that hold the nested options
NestedRegion(data) == Bytes(Slice(data, NestedOffset(Uint16(data)), Olen(data) + 4))

\* the total size 4 + inner_length of the option whose header starts region
InnerSize(region) == 4 + region[3] * 256 + region[4]

\* walking the headers of region, some inner header declares a total size
\* larger than the octets remaining in the region
RECURSIVE Overruns(_)
Overruns(region) ==
    IF Len(region) < 4 THEN FALSE
    ELSE IF InnerSize(region) > Len(region) THEN TRUE
    ELSE Overruns(SubSeq(region, InnerSize(region) + 1, Len(region)))

\* the number of options whose 4 + inner_length octets lie inside region
RECURSIVE InsideRegion(_)
InsideRegion(region) ==
    IF Len(region) < 4 \/ InnerSize(region) > Len(region) THEN 0
    ELSE 1 + InsideRegion(SubSeq(region, InnerSize(region) + 1, Len(region)))

\* the nested options of a decoded container
NestedOf(o) ==
    CASE o.t = "IaNaOption" -> o.IaNaOptions
      [] o.t = "IaTaOption" -> o.IaTaOptions
      [] o.t = "IaAddrOption" -> o.IAddrOptions
      [] o.t = "NextHopOption" -> o.NextHopOptions

\* C19: in the nested loop of IaNa, IaTa, IaAddr and NextHop an inner
\* header whose total size 4 + inner_length exceeds the octets remaining in
\* the container's value window is rejected with an error, and the
\* container holds no more nested options than lie inside the declared
\* length, also when the buffer continues past the declared length.
C19_CursorInsideWindow ==
    op = "DecodeOption" /\ HasNestedRegion(arg) /\ Overruns(NestedRegion(arg)) =>
        /\ Returned(back.err)
        /\ Len(NestedOf(back.val)) <= InsideRegion(NestedRegion(arg))

\* walking the headers of region, the region ends with octets that are not
\* a complete option: 1 to 3 octets, or a header declaring more than is left
RECURSIVE Incomplete(_)
Incomplete(region) ==
    IF Len(region) = 0 THEN FALSE
    ELSE IF Len(region) < 4 THEN TRUE
    ELSE IF InnerSize(region) > Len(region) THEN TRUE
    ELSE Incomplete(SubSeq(region, InnerSize(region) + 1, Len(region)))

\* C20: decoding an IaNa, IaTa, IaAddr or NextHop whose nested-options
\* region ends with 1 to 3 leftover octets, or with a header whose length
\* field declares more octets than are left in the region, fails with an
\* error.
C20_IncompleteFails ==
    op = "DecodeOption" /\ HasNestedRegion(arg) /\ Incomplete(NestedRegion(arg)) =>
        Returned(back.err)

\* the part of C20 the decoders keep: 1 to 3 leftover octets after the last
\* complete nested option give ErrUnexpectedEOF unless an earlier nested
\* option already failed
C20_LeftoverOctets ==
    op = "DecodeOption" /\ HasNestedRegion(arg)
        /\ Incomplete(NestedRegion(arg)) /\ ~Overruns(NestedRegion(arg)) =>
        Returned(back.err)

(***************************************************************************)
(* Properties of the length-prefixed lists.                                *)
(***************************************************************************)
\* the entries that the octets of value spell as u16 length + length octets,
\* when they end exactly with value
RECURSIVE ClassEntries(_, _)
ClassEntries(value, acc) ==
    IF Len(value) = 0 THEN [ok |-> TRUE, entries |-> acc]
    ELSE IF Len(value) < 2 THEN [ok |-> FALSE, entries |-> acc]
    ELSE LET size == value[1] * 256 + value[2]
         IN  IF size + 2 > Len(value) THEN [ok |-> FALSE, entries |-> acc]
             ELSE ClassEntries(SubSeq(value, size + 3, Len(value)),
                               Append(acc, SubSeq(value, 3, size + 2)))

\* the same for the u16 code + u16 length + length octets of VendorOpts
RECURSIVE VendorEntries(_, _)
VendorEntries(value, acc) ==
    IF Len(value) = 0 THEN [ok |-> TRUE, entries |-> acc]
    ELSE IF Len(value) < 4 THEN [ok |-> FALSE, entries |-> acc]
    ELSE LET size == value[3] * 256 + value[4]
         IN  IF size + 4 > Len(value) THEN [ok |-> FALSE, entries |-> acc]
             ELSE VendorEntries(SubSeq(value, size + 5, Len(value)),
                                Append(acc, VendorOptsOptionData(value[1] * 256 + value[2],
                                                                 SubSeq(value, 5, size + 4))))

\* data holds an option of code code whose declared length lies inside the
\* buffer and covers the fixed octets
HasValue(data, code, fixed) ==
    /\ SLen(data) >= 4
    /\ Uint16(data) = code
    /\ Olen(data) + 4 >= fixed
    /\ Olen(data) + 4 <= SLen(data)

\* the decoder's answer r carries exactly the entries e of the option's
\* value, or is an error when the value does not end with an entry
EntriesOfValue(e, r, got) ==
    IF e.ok THEN r.err = ErrNone /\ got = e.entries
    ELSE Returned(r.err)

\* C21: UserClass, VendorClass and VendorOpts decode the entries of the
\* length octets of their value and no others: octets after the option
\* boundary never become entries, and a cut-off length prefix or an entry
\* running past the boundary is answered with an error.
C21_EntriesEndAtBoundary ==
    /\ op = "DecodeOption" /\ HasValue(arg, OptionCodeUserClass, 4) =>
           EntriesOfValue(ClassEntries(Bytes(Slice(arg, 4, Olen(arg) + 4)), << >>),
                          back, back.val.UserClassData)
    /\ op = "DecodeOption" /\ HasValue(arg, OptionCodeVendorClass, 4) =>
           EntriesOfValue(ClassEntries(Bytes(Slice(arg, 4, Olen(arg) + 4)), << >>),
                          back, back.val.VendorClassData)
    /\ op = "DecodeOption" /\ HasValue(arg, OptionCodeVendorOpts, 8) =>
           EntriesOfValue(VendorEntries(Bytes(Slice(arg, 8, Olen(arg) + 4)), << >>),
                          back, back.val.OptionData)

(***************************************************************************)
(* Properties of the length checks of the decoders.                        *)
(***************************************************************************)
\* the least length field of the options with a fixed part
MinimumLengths ==
    [c \in {OptionCodeIaNa, OptionCodeIaTa, OptionCodeIaAddr, OptionCodeAuth,
             OptionCodeNextHop, OptionCodeRtPrefix} |->
        CASE c = OptionCodeIaNa -> 12
          [] c = OptionCodeIaTa -> 4
          [] c = OptionCodeIaAddr -> 24
          [] c = OptionCodeAuth -> 11
          [] c = OptionCodeNextHop -> 16
          [] c = OptionCodeRtPrefix -> 22]

\* C22: IaNa, IaTa, IaAddr, Auth, NextHop and RtPrefix with a length field
\* below the minimum of the option fail to decode with ErrUnexpectedEOF,
\* whatever follows the header in the buffer, and a decoded RtPrefix has
\* length field 22 and a prefix of 16 octets.
C22_MinimumLength ==
    /\ op = "DecodeOption" /\ SLen(arg) >= 4
            /\ Uint16(arg) \in DOMAIN MinimumLengths
            /\ Olen(arg) < MinimumLengths[Uint16(arg)] =>
           back.err = ErrUnexpectedEOF
    /\ op = "DecodeOption" /\ SLen(arg) >= 4 /\ Uint16(arg) = OptionCodeRtPrefix
            /\ back.err = ErrNone =>
           Olen(arg) = 22 /\ Len(back.val.Prefix) = 16

\* the number of octets of region that its complete options take
RECURSIVE CompleteLen(_)
CompleteLen(region) ==
    IF Len(region) < 4 \/ InnerSize(region) > Len(region) THEN 0
    ELSE InnerSize(region) + CompleteLen(SubSeq(region, InnerSize(region) + 1, Len(region)))

\* the octets of the option list of the message buffer data end with 1 to 3
\* octets after the last complete option, and the message decodes without
\* them
Leftover(data) ==
    LET region == Bytes(From(data, 4))
    IN  /\ Incomplete(region) /\ ~Overruns(region)
        /\ DhcpMessage_UnmarshalBinary(NewDhcpMessage,
               Exact(SubSeq(Bytes(data), 1, 4 + CompleteLen(region)))).err = ErrNone

\* C23: a window of fewer than 4 octets, or of fewer than 4 + length octets
\* for the length field of its header, fails to decode with
\* ErrUnexpectedEOF for every option code; DhcpMessage.UnmarshalBinary
\* answers fewer than 4 octets with ErrUnexpectedEOF, 4 octets with a
\* message without options, and 1 to 3 octets after the last complete
\* option with ErrUnexpectedEOF.
C23_ShortWindows ==
    /\ op = "DecodeOption" /\ SLen(arg) < 4 => back.err = ErrUnexpectedEOF
    /\ op = "DecodeOption" /\ SLen(arg) >= 4 /\ SLen(arg) < Olen(arg) + 4 =>
           back.err = ErrUnexpectedEOF
    /\ op = "DecodeMessage" /\ SLen(arg) < 4 => back.err = ErrUnexpectedEOF
    /\ op = "DecodeMessage" /\ SLen(arg) = 4 =>
           back.err = ErrNone /\ back.val.Options = << >>
    /\ op = "DecodeMessage" /\ SLen(arg) > 4 /\ Leftover(arg) =>
           back.err = ErrUnexpectedEOF

(***************************************************************************)
(* Properties of single options.                                           *)
(***************************************************************************)
\* C24: an FQDN option is encoded as its header with length field
\* 1 + len(DomainName), the flags octet at offset 4 and the domain name
\* from offset 5, and decoding that encoding gives back Flags and
\* DomainName.
C24_FqdnRoundTrip ==
    op = "RoundTripOption" /\ arg.t = "FQDNOption" =>
        /\ out.err = ErrNone
        /\ Bytes(out.data) = Header(OptionCodeFQDN, 1 + Len(arg.DomainName))
                                 \o <<arg.Flags>> \o arg.DomainName
        /\ back.err = ErrNone
        /\ back.val.Flags = arg.Flags
        /\ back.val.DomainName = arg.DomainName

\* the RelayMsg encoder's answer r for the message m it carries
CarriesMessage(m, r) ==
    LET e == DhcpRelayMessage_MarshalBinary(m)
    IN  IF e.err # ErrNone THEN r.err = e.err
        ELSE IF SLen(e.data) > 65535 THEN r.err = ErrWontFit
        ELSE r.err = ErrNone
                 /\ Bytes(r.data) = Header(OptionCodeRelayMsg, SLen(e.data)) \o Bytes(e.data)

\* the RelayMsg decoder's answer r for a value of body octets
DecodesBody(body, r) ==
    LET m == DhcpRelayMessage_UnmarshalBinary(NewDhcpRelayMessage, Exact(body))
    IN  /\ r.err = m.err
        /\ m.err = ErrNone => r.val.DhcpRelayMessage = m.val
        /\ Len(body) < 34 => r.err = ErrUnexpectedEOF

\* C25: a RelayMsg option is encoded as code 9, the size of the encoding of
\* the relay message it carries and that encoding (ErrWontFit above 65535
\* octets, the message's own error when it does not encode); it decodes
\* the length octets of its value as a relay message, with ErrUnexpectedEOF
\* below 34 octets; and the option decoded from an encoding equals the
\* option encoded, at every nesting depth and every size up to 65535.
C25_RelayMsgCarriesMessage ==
    /\ op \in {"MarshalOption", "RoundTripOption"} /\ arg.t = "RelayMsgOption" =>
           CarriesMessage(arg.DhcpRelayMessage, out)
    /\ op = "DecodeOption" /\ HasValue(arg, OptionCodeRelayMsg, 4) =>
           DecodesBody(Bytes(Slice(arg, 4, Olen(arg) + 4)), back)
    /\ op = "RoundTripOption" /\ arg.t = "RelayMsgOption" =>
           back.err = ErrNone /\ back.val = arg
    /\ op = "MarshalBig" /\ arg.t = "RelayMsgOption" =>
           out.err = (IF BodyLen(Option(arg)) > 65535 THEN ErrWontFit ELSE ErrNone)
    /\ op = "RoundTripBig" /\ arg.t = "RelayMsgOption" =>
           back.err = ErrNone /\ back.val = arg

(***************************************************************************)
(* Properties of the sizes of DUIDs.                                       *)
(***************************************************************************)
\* C26: a DUID that encodes without error takes between 4 and 130 octets,
\* and at least 8 (LLT), 6 (EN) or 4 (LL); a ClientId or ServerId option
\* that carries it has its size in the length field and takes at most 134
\* octets, and when the DUID does not encode, the option fails to encode
\* in the same way.
C26_DuidLengths ==
    /\ op = "MarshalDuid" /\ out.err = ErrNone =>
           /\ SLen(out.data) >= 4 /\ SLen(out.data) <= 130
           /\ SLen(out.data) >= DuidMinimum(Duid_Type(arg))
    /\ op = "MarshalOption" /\ arg.t \in {"ClientIdOption", "ServerIdOption"} =>
           IF Duid_MarshalBinary(arg.Duid).err = ErrNone
           THEN /\ out.err = ErrNone
                /\ Olen(out.data) = SLen(Duid_MarshalBinary(arg.Duid).data)
                /\ SLen(out.data) = 4 + Olen(out.data)
                /\ SLen(out.data) <= 134
           ELSE out.err = Duid_MarshalBinary(arg.Duid).err

\* a ClientId option with a DUID of 130 octets was encoded in 134 octets
C26_LargestClientId ==
    /\ op = "MarshalOption"
    /\ arg.t = "ClientIdOption"
    /\ out.err = ErrNone
    /\ Olen(out.data) = 130
    /\ SLen(out.data) = 134

(***************************************************************************)
(* Properties of what the calls leave behind.                              *)
(***************************************************************************)
\* the zero value of the kind of the receiver recv
ZeroOf(recv) == CHOOSE z \in Receivers : z.t = recv.t

\* C29: a successful UnmarshalBinary on a receiver that earlier calls have
\* decoded into leaves the receiver equal to what the same buffer decodes
\* to in a zero value: nothing of an earlier decode survives.
C29_ReceiverAsFresh ==
    op = "DecodeIntoAgain" /\ back.err = ErrNone =>
        back.val = Receiver_UnmarshalBinary(ZeroOf(out.recv), arg).val

(***************************************************************************)
(* Properties of the size limit of the containers.                         *)
(***************************************************************************)
\* C30: IaNa, IaTa, IaAddr and NextHop share one size limit: a container
\* whose nested options all encode and whose body takes at most 65535
\* octets encodes without error, and one whose body takes more is refused
\* with ErrWontFit.
C30_ContainerLimit ==
    op = "MarshalBig"
        /\ arg.t \in {"IaNaOption", "IaTaOption", "IaAddrOption", "NextHopOption"}
        /\ AllEncode(NestedOf(Option(arg))) =>
        out.err = (IF BodyLen(Option(arg)) > 65535 THEN ErrWontFit ELSE ErrNone)

====
